---- MODULE Spec2Model ----
(***************************************************************************)
(* A model of the HSBC HK credit-card statement parser                     *)
(* (src/hsbc_hk_statement_parser.py, src/parse_cli.py).                    *)
(*                                                                         *)
(* Representation.                                                         *)
(*  - Money (Decimal quantized to 0.01) is an integer number of cents.     *)
(*  - Optional[T] is a sequence: None is <<>>, a value v is <<v>>.         *)
(*  - A 16-digit card/account number is a natural number; the order of     *)
(*    naturals is the order of equal-length digit strings.                 *)
(*  - A normalized line (squeeze_ws) is a sequence of tokens; each regular *)
(*    expression of the source is a predicate on that sequence.            *)
(*  - An ISO date string "YYYY-MM-DD" is the record [y, m, d].             *)
(*  - A raised exception is a record [exc, msg, page, line]; page and line *)
(*    are 0 when the message carries no page/line context.                 *)
(***************************************************************************)
EXTENDS Integers, Sequences, FiniteSets, TLC

VARIABLES
    pc,                     \* position in main / parse_statement
    pages,                  \* reader.pages
    statement_product,      \* Optional product name (infer_statement_product)
    page_idx,               \* the page loop's page_idx (pages classified so far)
    statement_date_global,  \* Optional date
    sub_accounts,           \* account_number -> SubAccount
    todo,                   \* accounts the sorted loop has still to visit
    walk,                   \* parse_sub_account's locals
    parsed_accounts,        \* parse_statement's parsed_accounts
    error,                  \* Optional exception that left parse_statement
    result,                 \* Optional return value of parse_statement
    cli,                    \* what main wrote: [stdout, outfile, stderr, exit_code]
    fn_arg,                 \* argument of the function under test
    fn_ret                  \* its result

vars == <<pc, pages, statement_product, page_idx, statement_date_global, sub_accounts, todo, walk,
          parsed_accounts, error, result, cli, fn_arg, fn_ret>>

(***************************************************************************)
(* Optional values and exceptions                                          *)
(***************************************************************************)
None == <<>>

Some(v) == <<v>>

Val(o) == o[1]

\* Python truthiness of an Optional[Decimal]: None and Decimal("0.00") are falsy.
Truthy(o) == o # None /\ Val(o) # 0

ParseError(msg, page, line) ==
    [exc |-> "ParseError", msg |-> msg, page |-> page, line |-> line]

ValueError(msg, page, line) ==
    [exc |-> "ValueError", msg |-> msg, page |-> page, line |-> line]

Ok(v) == [ok |-> TRUE, v |-> v]

Raise(e) == [ok |-> FALSE, e |-> e]

(***************************************************************************)
(* Tokens                                                                  *)
(***************************************************************************)
\* a word
W(s) == [t |-> "w", s |-> s]

\* a number literal: units / 10^dec, `cr` when it carries the CR suffix
M(units, dec, cr) == [t |-> "m", units |-> units, dec |-> dec, cr |-> cr]

\* two digits followed by three upper-case letters
D(dd, mon) == [t |-> "d", dd |-> dd, mon |-> mon]

\* four groups of four digits
C(n) == [t |-> "c", n |-> n]

\* a run of digits and dots that is not a number
N(s) == [t |-> "n", s |-> s]

MONTHS ==
    [JAN |-> 1, FEB |-> 2, MAR |-> 3, APR |-> 4, MAY |-> 5, JUN |-> 6,
     JUL |-> 7, AUG |-> 8, SEP |-> 9, OCT |-> 10, NOV |-> 11, DEC |-> 12]

(***************************************************************************)
(* datetime.date                                                           *)
(***************************************************************************)
IsLeap(y) == y % 4 = 0 /\ (y % 100 # 0 \/ y % 400 = 0)

DaysInMonth(y, m) ==
    IF m \in {4, 6, 9, 11} THEN 30
    ELSE IF m = 2 THEN (IF IsLeap(y) THEN 29 ELSE 28)
    ELSE 31

\* date(year, month, day) raises ValueError unless this holds
IsRealDate(y, m, d) ==
    /\ y >= 1 /\ y <= 9999
    /\ m >= 1 /\ m <= 12
    /\ d >= 1 /\ d <= DaysInMonth(y, m)

(***************************************************************************)
(* Token parsers                                                           *)
(***************************************************************************)
\* re.fullmatch(r"\d+\.\d{2}") on the token without CR and commas
parse_money(raw, page, line) ==
    IF raw.t # "m" \/ raw.dec # 2
    THEN Raise(ParseError("Invalid money token", page, line))
    ELSE Ok([amount |-> raw.units,
             signed |-> IF raw.cr THEN -raw.units ELSE raw.units,
             is_credit |-> raw.cr])

parse_ddmon_ge(token, statement_year, statement_month, page, line) ==
    IF token.t # "d"
    THEN Raise(ParseError("Invalid date token", page, line))
    ELSE IF token.mon \notin DOMAIN MONTHS
    THEN Raise(ParseError("Unknown month", page, line))
    ELSE LET month == MONTHS[token.mon]
             year == IF month >= statement_month THEN statement_year - 1
                     ELSE statement_year
         IN IF IsRealDate(year, month, token.dd)
            THEN Ok([y |-> year, m |-> month, d |-> token.dd])
            ELSE Raise(ParseError("Invalid calendar date", page, line))

parse_ddmon(token, statement_year, statement_month, page, line) ==
    IF token.t # "d"
    THEN Raise(ParseError("Invalid date token", page, line))
    ELSE IF token.mon \notin DOMAIN MONTHS
    THEN Raise(ParseError("Unknown month", page, line))
    ELSE LET month == MONTHS[token.mon]
             year == IF month > statement_month THEN statement_year - 1
                     ELSE statement_year
         IN IF IsRealDate(year, month, token.dd)
            THEN Ok([y |-> year, m |-> month, d |-> token.dd])
            ELSE Raise(ParseError("Invalid calendar date", page, line))

canonical_base_currency(amount_currency) ==
    IF amount_currency \in {"CNY", "RMB"} THEN "CNY" ELSE amount_currency

\* every amount currency belongs to an HKD sub-account
sub_currency_always_HKD(amount_currency) == "HKD"

sub_currency_from_amount_currency(amount_currency) ==
    IF amount_currency \in {"CNY", "RMB"} THEN "RMB" ELSE "HKD"

(***************************************************************************)
(* Decimal arithmetic                                                      *)
(***************************************************************************)
RECURSIVE Pow10(_)
Pow10(n) == IF n = 0 THEN 1 ELSE 10 * Pow10(n - 1)

\* an exchange rate is the Decimal num / 10^scale
Rate(num, scale) == [num |-> num, scale |-> scale]

\* equality of the digits as written
RateSame(a, b) == a = b

\* Decimal equality is numeric: Decimal("0.0520") == Decimal("0.052")
RateEq(a, b) == a.num * Pow10(b.scale) = b.num * Pow10(a.scale)

\* (cents * rate).quantize(MONEY_Q, rounding=ROUND_HALF_UP), operands >= 0
QuantizeProduct(cents, rate) ==
    (2 * cents * rate.num + Pow10(rate.scale)) \div (2 * Pow10(rate.scale))

Abs(x) == IF x < 0 THEN -x ELSE x

\* the sequences of at most n elements of a set
Strings(alphabet, n) == UNION {[1 .. k -> alphabet] : k \in 0 .. n}

RECURSIVE SumAmounts(_, _)
\* sum((tx.amount for tx in transactions if tx.is_credit == credit), Decimal("0.00"))
SumAmounts(transactions, credit) ==
    IF transactions = <<>> THEN 0
    ELSE (IF Head(transactions).is_credit = credit THEN Head(transactions).amount ELSE 0)
         + SumAmounts(Tail(transactions), credit)

\* the first exception of a sequence of Optional exceptions, in order
RECURSIVE FirstError(_)
FirstError(checks) ==
    IF checks = <<>> THEN None
    ELSE IF Head(checks) # None THEN Head(checks)
    ELSE FirstError(Tail(checks))

(***************************************************************************)
(* The data model                                                          *)
(***************************************************************************)
PageBlock(page_number, lines) == [page_number |-> page_number, lines |-> lines]

NewSubAccount(account_number, sub_account_currency, amount_currency, statement_balance_header) ==
    [account_number |-> account_number,
     sub_account_currency |-> sub_account_currency,
     amount_currency |-> amount_currency,
     statement_balance_header |-> statement_balance_header,
     pages |-> <<>>,
     cards |-> <<>>,
     previous_balance |-> None,
     statement_balance_summary |-> None,
     summary_credit_payment |-> None,
     summary_purchases_and_instalments |-> None,
     summary_total_account_balance |-> None,
     transactions |-> <<>>]

\* `at` is a history field: <<page number, line number>> of the line that
\* created the transaction.  The program does not store it.
NewTransaction(post_date, transaction_date, description, amount, signed_amount, is_credit, kind, card_number, cardholder_name, region_code_alpha2, currency, currency_amount, at) ==
    [post_date |-> post_date,
     transaction_date |-> transaction_date,
     description |-> description,
     amount |-> amount,
     signed_amount |-> signed_amount,
     is_credit |-> is_credit,
     kind |-> kind,
     card_number |-> card_number,
     cardholder_name |-> cardholder_name,
     payment_method |-> None,
     region_code_alpha2 |-> region_code_alpha2,
     currency |-> currency,
     currency_amount |-> currency_amount,
     exchange_rate |-> None,
     notes |-> <<>>,
     at |-> at]

(***************************************************************************)
(* Character classes and string tests, on the words of the vocabulary      *)
(***************************************************************************)
\* str.upper()
upper(s) ==
    CASE s = "Paid" -> "PAID"
      [] s = "by" -> "BY"
      [] s = "Autopay" -> "AUTOPAY"
      [] s = "Apple" -> "APPLE"
      [] s = "Pay-Mobile:1234" -> "PAY-MOBILE:1234"
      [] s = "UnionPay" -> "UNIONPAY"
      [] s = "*Exchange" -> "*EXCHANGE"
      [] s = "Rate:" -> "RATE:"
      [] s = "Pulse" -> "PULSE"
      [] OTHER -> s

\* [A-Z]{2}
ALPHA2_RE(tok) == tok.t = "w" /\ tok.s \in {"HK", "JP", "BY", "QR", "CN"}

\* [A-Z]{3}
ALPHA3_RE(tok) ==
    tok.t = "w" /\ tok.s \in {"JPY", "USD", "HKD", "CNY", "RMB", "BOB", "AND", "THE"}

\* [0-9][0-9,]*\.\d{2}
PLAIN_AMOUNT_RE(tok) == tok.t = "m" /\ tok.dec = 2 /\ ~tok.cr

\* [0-9][0-9,]*\.\d{2}(?:CR)?
AMOUNT_CR_RE(tok) == tok.t = "m" /\ tok.dec = 2

\* a word of [A-Za-z .,'()/-] only
NameChars(tok) ==
    tok.t = "w" /\ tok.s \in {"JOHN", "SMITH", "BOB", "ANN", "LEE", "PULSE", "Pulse",
                              "AND", "THE", "HK", "JP", "BY", "QR", "CN", "JPY", "USD",
                              "HKD", "CNY", "RMB", "AMAZON", "PAID", "Paid", "by",
                              "AUTOPAY", "Autopay", "PREPAID", "AUTOPAYMENT",
                              "PREVIOUS", "BALANCE", "STATEMENT", "CREDIT/PAYMENT",
                              "PURCHASES", "INSTALMENTS", "TOTAL", "ACCOUNT",
                              "APPLE", "Apple", "UNIONPAY", "UnionPay", "Page"}

\* upper(s) contains one of is_probable_cardholder's blocked_words
ContainsBlockedWord(tok) == tok.t = "w" /\ upper(tok.s) \in {"PULSE"}

\* upper(s) ends with "PAID", is "BY", starts with "AUTOPAY"
EndsWithPAID(tok) == tok.t = "w" /\ upper(tok.s) \in {"PAID", "PREPAID"}

IsBY(tok) == tok.t = "w" /\ upper(tok.s) = "BY"

StartsWithAUTOPAY(tok) == tok.t = "w" /\ upper(tok.s) \in {"AUTOPAY", "AUTOPAYMENT"}

\* "PAID BY AUTOPAY" in description.upper(); the description is its tokens
\* joined by single spaces
ContainsPaidByAutopay(description) ==
    \E i \in 1..(Len(description) - 2) :
        /\ EndsWithPAID(description[i])
        /\ IsBY(description[i + 1])
        /\ StartsWithAUTOPAY(description[i + 2])

\* the line's first tokens are these words (str.startswith / a regex's literal)
StartsWithWords(line, words) ==
    /\ Len(line) >= Len(words)
    /\ \A i \in 1..Len(words) : line[i] = W(words[i])

(***************************************************************************)
(* The line patterns.  Each gives the captured amount token, or None.      *)
(***************************************************************************)
\* ^PREVIOUS BALANCE\s+([0-9][0-9,]*\.\d{2})$
PREVIOUS_BALANCE_RE(line) ==
    IF /\ Len(line) = 3
       /\ StartsWithWords(line, <<"PREVIOUS", "BALANCE">>)
       /\ PLAIN_AMOUNT_RE(line[3])
    THEN Some(line[3]) ELSE None

\* ^STATEMENT BALANCE\s+([0-9][0-9,]*\.\d{2})$
STATEMENT_BALANCE_RE(line) ==
    IF /\ Len(line) = 3
       /\ StartsWithWords(line, <<"STATEMENT", "BALANCE">>)
       /\ PLAIN_AMOUNT_RE(line[3])
    THEN Some(line[3]) ELSE None

\* ^CREDIT/PAYMENT\s*:\s*([0-9][0-9,]*\.\d{2}(?:CR)?)$
SUMMARY_CREDIT_RE(line) ==
    IF /\ Len(line) = 3
       /\ StartsWithWords(line, <<"CREDIT/PAYMENT", ":">>)
       /\ AMOUNT_CR_RE(line[3])
    THEN Some(line[3]) ELSE None

\* ^PURCHASES AND INSTALMENTS\s*:\s*([0-9][0-9,]*\.\d{2})$
SUMMARY_PURCHASE_RE(line) ==
    IF /\ Len(line) = 5
       /\ StartsWithWords(line, <<"PURCHASES", "AND", "INSTALMENTS", ":">>)
       /\ PLAIN_AMOUNT_RE(line[5])
    THEN Some(line[5]) ELSE None

\* ^TOTAL ACCOUNT BALANCE\s*:\s*([0-9][0-9,]*\.\d{2})$
SUMMARY_TOTAL_RE(line) ==
    IF /\ Len(line) = 5
       /\ StartsWithWords(line, <<"TOTAL", "ACCOUNT", "BALANCE", ":">>)
       /\ PLAIN_AMOUNT_RE(line[5])
    THEN Some(line[5]) ELSE None

\* ^((?:\d{4}\s+){3}\d{4})\s+([A-Za-z][A-Za-z .,'()/-]{1,48})$
CARD_HOLDER_RE(line) ==
    /\ Len(line) >= 2
    /\ line[1].t = "c"
    /\ \A i \in 2..Len(line) : NameChars(line[i])

is_probable_cardholder(name) ==
    /\ ~\E i \in 1..Len(name) : ContainsBlockedWord(name[i])
    /\ Len(name) >= 1
    /\ Len(name) <= 6

\* re.match(r"^\d{2}[A-Z]{3}\b", line)
TransactionLike(line) == Len(line) >= 1 /\ line[1].t = "d"

\* ^(\d{2}[A-Z]{3})\s+(\d{2}[A-Z]{3})\s+(.+?)\s+([0-9][0-9,]*\.\d{2}(?:CR)?)$
TRANSACTION_RE(line) ==
    /\ Len(line) >= 4
    /\ line[1].t = "d"
    /\ line[2].t = "d"
    /\ AMOUNT_CR_RE(line[Len(line)])

\* ^APPLE\s*PAY-MOBILE:(\d{4})$, ignoring case
APPLE_PAY_RE(line) ==
    /\ Len(line) = 2
    /\ line[1].t = "w" /\ upper(line[1].s) = "APPLE"
    /\ line[2].t = "w" /\ upper(line[2].s) = "PAY-MOBILE:1234"

\* ^UNIONPAY\s*QR$, ignoring case
UNIONPAY_QR_RE(line) ==
    /\ Len(line) = 2
    /\ line[1].t = "w" /\ upper(line[1].s) = "UNIONPAY"
    /\ line[2].t = "w" /\ upper(line[2].s) = "QR"

ExchangeRatePrefix(line) ==
    /\ Len(line) = 3
    /\ line[1].t = "w" /\ upper(line[1].s) = "*EXCHANGE"
    /\ line[2].t = "w" /\ upper(line[2].s) = "RATE:"

\* ^\*EXCHANGE\s*RATE:\s*([0-9]+(?:\.[0-9]+)?)$, ignoring case
EXCHANGE_RATE_RE(line) ==
    IF ExchangeRatePrefix(line) /\ line[3].t = "m" /\ ~line[3].cr
    THEN Some(Rate(line[3].units, line[3].dec)) ELSE None

\* ^(?:APPLE\s*PAY-MOBILE:\d{4}|UNIONPAY\s*QR|\*EXCHANGE\s*RATE:\s*[0-9.]+)$,
\* ignoring case; a token of kind "n" is a run of digits and dots that is not a
\* number, such as 1.2.3
CONTINUATION_RE(line) ==
    \/ APPLE_PAY_RE(line)
    \/ UNIONPAY_QR_RE(line)
    \/ /\ ExchangeRatePrefix(line)
       /\ \/ line[3].t = "m" /\ ~line[3].cr
          \/ line[3].t = "n"

(***************************************************************************)
(* parse_sub_account: one line of the walk                                 *)
(***************************************************************************)
\* the latest value replaces the one recorded
set_once_or_same_last_wins(current, new, page, line_no) == Ok(new)

set_once_or_same(current, new, page, line_no) ==
    IF current = None THEN Ok(new)
    ELSE IF Val(current) # new
    THEN Raise(ParseError("Conflicting summary value", page, line_no))
    ELSE Ok(Val(current))

\* (description, region_code_alpha2, currency, currency_amount)
split_description_details(description_raw, page, line_no) ==
    LET tokens == description_raw
        n == Len(tokens)
        has_ccy == /\ n >= 3
                   /\ ALPHA3_RE(tokens[n - 1])
                   /\ PLAIN_AMOUNT_RE(tokens[n])
        currency == IF has_ccy THEN Some(tokens[n - 1].s) ELSE None
        currency_amount == IF has_ccy THEN Some(tokens[n].units) ELSE None
        tokens1 == IF has_ccy THEN SubSeq(tokens, 1, n - 2) ELSE tokens
        n1 == Len(tokens1)
        has_region == n1 >= 2 /\ ALPHA2_RE(tokens1[n1])
        region_code_alpha2 == IF has_region THEN Some(tokens1[n1].s) ELSE None
        description == IF has_region THEN SubSeq(tokens1, 1, n1 - 1) ELSE tokens1
    IN IF tokens = <<>>
       THEN Raise(ParseError("Empty transaction description", page, line_no))
       ELSE IF description = <<>>
       THEN Raise(ParseError("Merchant description became empty", page, line_no))
       ELSE Ok([description |-> description,
                region_code_alpha2 |-> region_code_alpha2,
                currency |-> currency,
                currency_amount |-> currency_amount])

\* the rule without the credit test on its first branch
transaction_kind_by_text(is_credit, description) ==
    IF ContainsPaidByAutopay(description) THEN "payment"
    ELSE IF is_credit THEN "refund_or_credit"
    ELSE "purchase_or_charge"

\* lines 660-665
transaction_kind(is_credit, description) ==
    IF is_credit /\ ContainsPaidByAutopay(description) THEN "payment"
    ELSE IF is_credit THEN "refund_or_credit"
    ELSE "purchase_or_charge"

\* the state the walk threads through the lines of an account
WalkState(account, current_card_number, last_tx) ==
    [account |-> account, current_card_number |-> current_card_number,
     last_tx |-> last_tx, error |-> None]

Fail(st, e) == [st EXCEPT !.error = Some(e)]

\* a summary line without the sign test
summary_line_unsigned(st, field, raw, credit_line, page, line_no) ==
    LET p == parse_money(raw, page, line_no)
    IN IF ~p.ok THEN Fail(st, p.e)
       ELSE LET r == set_once_or_same(st.account[field], p.v.amount, page, line_no)
            IN IF ~r.ok THEN Fail(st, r.e)
               ELSE [st EXCEPT !.account[field] = Some(r.v), !.last_tx = None]

\* a summary line: parse_money, the sign test, set_once_or_same, last_tx = None.
\* `credit_line` is TRUE for CREDIT/PAYMENT, whose amount must carry CR unless
\* it is 0.00; the other four must not carry CR.
summary_line(st, field, raw, credit_line, page, line_no) ==
    LET p == parse_money(raw, page, line_no)
    IN IF ~p.ok THEN Fail(st, p.e)
       ELSE IF credit_line /\ p.v.amount # 0 /\ ~p.v.is_credit
       THEN Fail(st, ParseError("CREDIT/PAYMENT must be CR", page, line_no))
       ELSE IF ~credit_line /\ p.v.is_credit
       THEN Fail(st, ParseError("Summary value cannot be CR", page, line_no))
       ELSE LET r == set_once_or_same(st.account[field], p.v.amount, page, line_no)
            IN IF ~r.ok THEN Fail(st, r.e)
               ELSE [st EXCEPT !.account[field] = Some(r.v), !.last_tx = None]

\* the name of the latest header replaces the one recorded
card_holder_line_overwrites(st, line, page, line_no) ==
    LET card_number == line[1].n
        card_name == [i \in 1..(Len(line) - 1) |-> line[i + 1].s]
    IN [st EXCEPT !.account.cards =
                      [c \in (DOMAIN st.account.cards) \cup {card_number} |->
                          IF c = card_number THEN card_name
                          ELSE st.account.cards[c]],
                  !.current_card_number = Some(card_number),
                  !.last_tx = None]

\* lines 619-634, once CARD_HOLDER_RE and is_probable_cardholder hold
card_holder_line(st, line, page, line_no) ==
    LET card_number == line[1].n
        card_name == [i \in 1..(Len(line) - 1) |-> line[i + 1].s]
    IN IF card_number \notin DOMAIN st.account.cards
       THEN [st EXCEPT !.account.cards =
                           [c \in (DOMAIN st.account.cards) \cup {card_number} |->
                               IF c = card_number THEN card_name
                               ELSE st.account.cards[c]],
                       !.current_card_number = Some(card_number),
                       !.last_tx = None]
       ELSE IF st.account.cards[card_number] # card_name
       THEN Fail(st, ParseError("Cardholder name changed", page, line_no))
       ELSE [st EXCEPT !.current_card_number = Some(card_number),
                       !.last_tx = None]

\* lines 636-683, once the line starts with a DDMON token
transaction_line(st, line, page, line_no, stmt_year, stmt_month) ==
    IF ~TRANSACTION_RE(line)
    THEN Fail(st, ParseError("Transaction-like line could not be parsed", page, line_no))
    ELSE IF st.current_card_number = None
    THEN Fail(st, ParseError("Transaction before any cardholder header", page, line_no))
    ELSE LET base_currency == canonical_base_currency(Val(st.account.amount_currency))
             money == parse_money(line[Len(line)], page, line_no)
             post_date == parse_ddmon(line[1], stmt_year, stmt_month, page, line_no)
             trans_date == parse_ddmon(line[2], stmt_year, stmt_month, page, line_no)
             details == split_description_details(SubSeq(line, 3, Len(line) - 1),
                                                  page, line_no)
         IN IF ~money.ok THEN Fail(st, money.e)
            ELSE IF ~post_date.ok THEN Fail(st, post_date.e)
            ELSE IF ~trans_date.ok THEN Fail(st, trans_date.e)
            ELSE IF ~details.ok THEN Fail(st, details.e)
            ELSE IF Val(st.current_card_number) \notin DOMAIN st.account.cards
            THEN Fail(st, ParseError("Missing cardholder name", page, line_no))
            ELSE LET tx == NewTransaction(
                        post_date.v, trans_date.v, details.v.description,
                        money.v.amount, money.v.signed, money.v.is_credit,
                        transaction_kind(money.v.is_credit, details.v.description),
                        Val(st.current_card_number),
                        st.account.cards[Val(st.current_card_number)],
                        details.v.region_code_alpha2,
                        IF details.v.currency # None THEN details.v.currency
                        ELSE Some(base_currency),
                        IF Truthy(details.v.currency_amount)
                        THEN details.v.currency_amount
                        ELSE Some(money.v.amount),
                        <<page, line_no>>)
                 IN [st EXCEPT !.account.transactions = Append(@, tx),
                               !.last_tx = Some(Len(st.account.transactions) + 1)]

\* lines 685-721, once last_tx is set and CONTINUATION_RE matches; last_tx is
\* the index of the transaction in account.transactions
continuation_line(st, line, page, line_no) ==
    LET k == Val(st.last_tx)
        tx == st.account.transactions[k]
        m_rate == EXCHANGE_RATE_RE(line)
        method == IF APPLE_PAY_RE(line) THEN "APPLE_PAY" ELSE "UNIONPAY_QR"
    IN IF m_rate # None
       THEN IF tx.exchange_rate = None
            THEN [st EXCEPT !.account.transactions[k].exchange_rate = m_rate]
            ELSE IF ~RateEq(Val(tx.exchange_rate), Val(m_rate))
            THEN Fail(st, ParseError("Conflicting exchange rate", page, line_no))
            ELSE st
       ELSE IF APPLE_PAY_RE(line) \/ UNIONPAY_QR_RE(line)
       THEN IF tx.payment_method = None
            THEN [st EXCEPT !.account.transactions[k].payment_method = Some(method)]
            ELSE IF Val(tx.payment_method) # method
            THEN Fail(st, ParseError("Conflicting payment method", page, line_no))
            ELSE st
       ELSE [st EXCEPT !.account.transactions[k].notes = Append(@, line)]

\* lines 723-732: the line starts with the text of a summary line's name
MalformedSummaryPrefix(line) ==
    \/ StartsWithWords(line, <<"PREVIOUS", "BALANCE">>)
    \/ StartsWithWords(line, <<"STATEMENT", "BALANCE">>)
    \/ StartsWithWords(line, <<"CREDIT/PAYMENT">>)
    \/ StartsWithWords(line, <<"PURCHASES", "AND", "INSTALMENTS">>)
    \/ StartsWithWords(line, <<"TOTAL", "ACCOUNT", "BALANCE">>)

unmatched_line_raises(st, line, page, line_no) ==
    Fail(st, ParseError("Unrecognized line", page, line_no))

\* lines 723-732 and the end of the loop body: a line no branch took
unmatched_line(st, line, page, line_no) ==
    IF MalformedSummaryPrefix(line)
    THEN Fail(st, ParseError("Malformed summary line", page, line_no))
    ELSE st

\* the body of `for line_no, raw_line in enumerate(page.lines, start=1)`
parse_line(st, line, page, line_no, stmt_year, stmt_month) ==
    IF line = <<>> THEN st
    ELSE IF PREVIOUS_BALANCE_RE(line) # None
    THEN summary_line(st, "previous_balance", Val(PREVIOUS_BALANCE_RE(line)),
                      FALSE, page, line_no)
    ELSE IF STATEMENT_BALANCE_RE(line) # None
    THEN summary_line(st, "statement_balance_summary",
                      Val(STATEMENT_BALANCE_RE(line)), FALSE, page, line_no)
    ELSE IF SUMMARY_CREDIT_RE(line) # None
    THEN summary_line(st, "summary_credit_payment", Val(SUMMARY_CREDIT_RE(line)),
                      TRUE, page, line_no)
    ELSE IF SUMMARY_PURCHASE_RE(line) # None
    THEN summary_line(st, "summary_purchases_and_instalments",
                      Val(SUMMARY_PURCHASE_RE(line)), FALSE, page, line_no)
    ELSE IF SUMMARY_TOTAL_RE(line) # None
    THEN summary_line(st, "summary_total_account_balance",
                      Val(SUMMARY_TOTAL_RE(line)), FALSE, page, line_no)
    ELSE IF CARD_HOLDER_RE(line) /\ is_probable_cardholder(SubSeq(line, 2, Len(line)))
    THEN card_holder_line(st, line, page, line_no)
    ELSE IF TransactionLike(line)
    THEN transaction_line(st, line, page, line_no, stmt_year, stmt_month)
    ELSE IF st.last_tx # None /\ CONTINUATION_RE(line)
    THEN continuation_line(st, line, page, line_no)
    ELSE unmatched_line(st, line, page, line_no)

(***************************************************************************)
(* validate_sub_account                                                    *)
(***************************************************************************)
TOLERANCE == 5

check_transaction_no_tolerance(tx, base_currency) ==
    IF tx.currency = None \/ tx.currency_amount = None
    THEN Some(ParseError("Incomplete currency details", 0, 0))
    ELSE IF Val(tx.currency) # base_currency
    THEN IF tx.exchange_rate = None
         THEN Some(ParseError("Missing exchange rate", 0, 0))
         ELSE None
    ELSE IF tx.exchange_rate # None
    THEN Some(ParseError("Exchange rate present without foreign currency", 0, 0))
    ELSE None

\* the body of `for tx in account.transactions`
check_transaction(tx, base_currency) ==
    IF tx.currency = None \/ tx.currency_amount = None
    THEN Some(ParseError("Incomplete currency details", 0, 0))
    ELSE IF Val(tx.currency) # base_currency
    THEN IF tx.exchange_rate = None
         THEN Some(ParseError("Missing exchange rate", 0, 0))
         ELSE LET converted == QuantizeProduct(Val(tx.currency_amount),
                                               Val(tx.exchange_rate))
              IN IF Abs(converted - tx.amount) > TOLERANCE
                 THEN Some(ParseError("Foreign conversion mismatch", 0, 0))
                 ELSE None
    ELSE IF tx.exchange_rate # None
    THEN Some(ParseError("Exchange rate present without foreign currency", 0, 0))
    ELSE None

check_summaries_absent_ok(account, credits, debits) ==
    FirstError(<<
        IF account.summary_credit_payment # None
           /\ credits # Val(account.summary_credit_payment)
        THEN Some(ParseError("Credit summary mismatch", 0, 0)) ELSE None,
        IF account.summary_purchases_and_instalments # None
           /\ debits # Val(account.summary_purchases_and_instalments)
        THEN Some(ParseError("Purchases summary mismatch", 0, 0)) ELSE None
    >>)

\* the four checks of the recomputed totals against the declared summaries
check_summaries(account, credits, debits) ==
    FirstError(<<
        IF account.summary_credit_payment # None
           /\ credits # Val(account.summary_credit_payment)
        THEN Some(ParseError("Credit summary mismatch", 0, 0)) ELSE None,
        IF account.summary_credit_payment = None /\ credits # 0
        THEN Some(ParseError("Missing CREDIT/PAYMENT summary", 0, 0)) ELSE None,
        IF account.summary_purchases_and_instalments # None
           /\ debits # Val(account.summary_purchases_and_instalments)
        THEN Some(ParseError("Purchases summary mismatch", 0, 0)) ELSE None,
        IF account.summary_purchases_and_instalments = None /\ debits # 0
        THEN Some(ParseError("Missing PURCHASES AND INSTALMENTS summary", 0, 0))
        ELSE None
    >>)

check_anchor_exists_never(account) == None

check_anchor_exists(account) ==
    IF /\ account.statement_balance_summary = None
       /\ account.summary_total_account_balance = None
       /\ account.statement_balance_header = None
    THEN Some(ParseError("Missing statement balance anchors", 0, 0))
    ELSE None

check_anchors_no_header(account, net) ==
    FirstError(<<
        IF account.statement_balance_summary # None
           /\ net # Val(account.statement_balance_summary)
        THEN Some(ParseError("Statement balance mismatch", 0, 0)) ELSE None,
        IF account.summary_total_account_balance # None
           /\ net # Val(account.summary_total_account_balance)
        THEN Some(ParseError("Total account balance mismatch", 0, 0)) ELSE None
    >>)

\* only the statement-balance summary is held against net
check_anchors_summary_only(account, net) ==
    IF account.statement_balance_summary # None
       /\ net # Val(account.statement_balance_summary)
    THEN Some(ParseError("Statement balance mismatch", 0, 0)) ELSE None

\* the four checks of net against the balance anchors
check_anchors(account, net) ==
    FirstError(<<
        IF account.statement_balance_summary # None
           /\ net # Val(account.statement_balance_summary)
        THEN Some(ParseError("Statement balance mismatch", 0, 0)) ELSE None,
        IF account.summary_total_account_balance # None
           /\ net # Val(account.summary_total_account_balance)
        THEN Some(ParseError("Total account balance mismatch", 0, 0)) ELSE None,
        IF /\ account.statement_balance_summary # None
           /\ account.summary_total_account_balance # None
           /\ Val(account.statement_balance_summary)
                # Val(account.summary_total_account_balance)
        THEN Some(ParseError("Statement balance vs total mismatch", 0, 0)) ELSE None,
        IF account.statement_balance_header # None
           /\ net # Val(account.statement_balance_header)
        THEN Some(ParseError("Header vs summary statement balance mismatch", 0, 0))
        ELSE None
    >>)

\* an absent previous balance counts as 0.00
validate_sub_account_zero_previous(account) ==
    IF account.amount_currency = None
    THEN Some(ParseError("Missing amount currency", 0, 0))
    ELSE LET base_currency == canonical_base_currency(Val(account.amount_currency))
             credits == SumAmounts(account.transactions, TRUE)
             debits == SumAmounts(account.transactions, FALSE)
             previous == IF account.previous_balance = None THEN 0
                         ELSE Val(account.previous_balance)
             net == previous + debits - credits
         IN FirstError(<<
                FirstError([i \in 1..Len(account.transactions) |->
                    check_transaction(account.transactions[i], base_currency)]),
                check_summaries(account, credits, debits),
                check_anchor_exists(account),
                check_anchors(account, net)
            >>)

\* None when the account passes, else the ParseError raised
validate_sub_account(account) ==
    IF account.previous_balance = None
    THEN Some(ParseError("Missing previous balance", 0, 0))
    ELSE IF account.amount_currency = None
    THEN Some(ParseError("Missing amount currency", 0, 0))
    ELSE LET base_currency == canonical_base_currency(Val(account.amount_currency))
             credits == SumAmounts(account.transactions, TRUE)
             debits == SumAmounts(account.transactions, FALSE)
             net == Val(account.previous_balance) + debits - credits
         IN FirstError(<<
                FirstError([i \in 1..Len(account.transactions) |->
                    check_transaction(account.transactions[i], base_currency)]),
                check_summaries(account, credits, debits),
                check_anchor_exists(account),
                check_anchors(account, net)
            >>)

(***************************************************************************)
(* sub_account_to_json                                                     *)
(***************************************************************************)
\* the amount without its cents
money_to_json_whole(amount) ==
    [neg |-> amount < 0, whole |-> Abs(amount) \div 100, frac |-> 0]

\* format(amount.quantize(MONEY_Q), "f"): the decimal string, an optional "-",
\* then whole "." frac, frac of two digits
money_to_json(amount) ==
    [neg |-> amount < 0, whole |-> Abs(amount) \div 100, frac |-> Abs(amount) % 100]

\* money_to_json(tx.signed_amount): signed_amount is -amount for a credit
\* (Decimal keeps the sign of a negative zero) and amount otherwise
signed_money_to_json(tx) ==
    [neg |-> tx.is_credit, whole |-> tx.amount \div 100, frac |-> tx.amount % 100]

\* format(value, "f"): the digits as written
decimal_to_json(value) == value

\* money_to_json(x) if x is not None else None
opt_money_to_json(o) == IF o = None THEN None ELSE Some(money_to_json(Val(o)))

\* decimal_to_json(x) if x is not None else None
opt_decimal_to_json(o) == IF o = None THEN None ELSE Some(decimal_to_json(Val(o)))

RECURSIVE SortedSeq(_)
\* sorted(S) for a set of numbers
SortedSeq(S) ==
    IF S = {} THEN <<>>
    ELSE LET m == CHOOSE x \in S : \A y \in S : x <= y
         IN <<m>> \o SortedSeq(S \ {m})

RECURSIVE ReverseSeq(_)
ReverseSeq(q) == IF q = <<>> THEN <<>> ELSE Append(ReverseSeq(Tail(q)), Head(q))

transaction_to_json(tx) ==
    [post_date |-> tx.post_date,
     transaction_date |-> tx.transaction_date,
     description |-> tx.description,
     amount |-> money_to_json(tx.amount),
     signed_amount |-> signed_money_to_json(tx),
     is_credit |-> tx.is_credit,
     kind |-> tx.kind,
     payment_method |-> tx.payment_method,
     region_code_alpha2 |-> tx.region_code_alpha2,
     currency |-> tx.currency,
     currency_amount |-> opt_money_to_json(tx.currency_amount),
     exchange_rate |-> opt_decimal_to_json(tx.exchange_rate),
     notes |-> tx.notes,
     at |-> tx.at]

\* tx_by_card[card_number]: the account's transactions of that card, in list order
tx_by_card_reversed(account, card_number) ==
    LET own == SelectSeq(account.transactions, LAMBDA tx : tx.card_number = card_number)
    IN ReverseSeq([i \in 1..Len(own) |-> transaction_to_json(own[i])])

\* only the first transaction of the card is kept
tx_by_card_first_only(account, card_number) ==
    LET own == SelectSeq(account.transactions, LAMBDA tx : tx.card_number = card_number)
    IN [i \in 1..(IF own = <<>> THEN 0 ELSE 1) |-> transaction_to_json(own[i])]

tx_by_card(account, card_number) ==
    LET own == SelectSeq(account.transactions, LAMBDA tx : tx.card_number = card_number)
    IN [i \in 1..Len(own) |-> transaction_to_json(own[i])]

\* the statement-balance summary or nothing
effective_statement_balance_summary_only(account, computed_statement_balance) ==
    IF Truthy(account.statement_balance_summary)
    THEN Val(account.statement_balance_summary)
    ELSE 0

\* the first truthy of the three anchors, else the computed balance
effective_statement_balance(account, computed_statement_balance) ==
    IF Truthy(account.statement_balance_summary)
    THEN Val(account.statement_balance_summary)
    ELSE IF Truthy(account.summary_total_account_balance)
    THEN Val(account.summary_total_account_balance)
    ELSE IF Truthy(account.statement_balance_header)
    THEN Val(account.statement_balance_header)
    ELSE computed_statement_balance

sub_account_to_json(account) ==
    IF account.sub_account_currency = None \/ account.amount_currency = None
    THEN Raise(ParseError("Internal error: missing currency", 0, 0))
    ELSE LET credits == SumAmounts(account.transactions, TRUE)
             debits == SumAmounts(account.transactions, FALSE)
             previous == IF Truthy(account.previous_balance)
                         THEN Val(account.previous_balance) ELSE 0
             computed_statement_balance == previous + debits - credits
             order == SortedSeq(DOMAIN account.cards)
         IN Ok([account_number |-> account.account_number,
                sub_account_currency |-> Val(account.sub_account_currency),
                amount_currency |-> Val(account.amount_currency),
                statement_balance |->
                    money_to_json(effective_statement_balance(
                        account, computed_statement_balance)),
                previous_balance |-> money_to_json(previous),
                summary |->
                    [credit_payment |->
                        opt_money_to_json(account.summary_credit_payment),
                     purchases_and_instalments |->
                        opt_money_to_json(account.summary_purchases_and_instalments),
                     total_account_balance |->
                        opt_money_to_json(account.summary_total_account_balance)],
                cards |->
                    [i \in 1..Len(order) |->
                        [card_number |-> order[i],
                         cardholder_name |-> account.cards[order[i]],
                         transactions |-> tx_by_card(account, order[i])]]])

(***************************************************************************)
(* Idle values of the variables a specification does not use               *)
(***************************************************************************)
IdleCli == [stdout |-> None, outfile |-> None, stderr |-> None, exit_code |-> None]

\* `n` and `line` are history fields: the number of lines of the account read
\* so far, and the line read last
IdleWalk == [account |-> None, page |-> 0, line_no |-> 0, n |-> 0, line |-> None,
             current_card_number |-> None, last_tx |-> None]

PipelineIdle ==
    /\ pages = <<>>
    /\ statement_product = None
    /\ page_idx = 0
    /\ statement_date_global = None
    /\ sub_accounts = <<>>
    /\ todo = <<>>
    /\ walk = IdleWalk
    /\ parsed_accounts = <<>>
    /\ error = None
    /\ result = None
    /\ cli = IdleCli

PipelineUnchanged ==
    UNCHANGED <<pages, statement_product, page_idx, statement_date_global, sub_accounts, todo, walk,
                parsed_accounts, error, result, cli>>

(***************************************************************************)
(* parse_statement, from validation on, and main                           *)
(***************************************************************************)
\* the account of the current iteration of `for account in sorted(...)`
cur == Val(walk.account)

\* one iteration of the line loop on `line` of the page numbered page_number
WalkStep(line, page_number) ==
    LET st == parse_line(WalkState(sub_accounts[cur], walk.current_card_number,
                                   walk.last_tx),
                         line, page_number, walk.line_no,
                         Val(statement_date_global).y, Val(statement_date_global).m)
    IN /\ IF st.error # None
          THEN /\ error' = st.error
               /\ pc' = "except"
               /\ walk' = [walk EXCEPT !.line = Some(line)]
               /\ UNCHANGED sub_accounts
          ELSE /\ sub_accounts' = [sub_accounts EXCEPT ![cur] = st.account]
               /\ walk' = [walk EXCEPT !.line_no = @ + 1,
                                       !.n = @ + 1,
                                       !.line = Some(line),
                                       !.current_card_number = st.current_card_number,
                                       !.last_tx = st.last_tx]
               /\ UNCHANGED <<pc, error>>
       /\ UNCHANGED <<pages, statement_product, page_idx, statement_date_global,
                      todo, parsed_accounts, result, cli, fn_arg, fn_ret>>

\* validate_sub_account(account)
Validate ==
    /\ pc = "validate"
    /\ LET e == validate_sub_account(sub_accounts[cur])
       IN IF e # None
          THEN error' = e /\ pc' = "except"
          ELSE pc' = "serialize" /\ UNCHANGED error
    /\ UNCHANGED <<pages, statement_product, page_idx, statement_date_global,
                   sub_accounts, todo, walk, parsed_accounts, result, cli,
                   fn_arg, fn_ret>>

\* parsed_accounts.append(sub_account_to_json(account))
Serialize ==
    /\ pc = "serialize"
    /\ LET r == sub_account_to_json(sub_accounts[cur])
       IN IF r.ok
          THEN /\ parsed_accounts' = Append(parsed_accounts, r.v)
               /\ pc' = "account"
               /\ UNCHANGED error
          ELSE /\ error' = Some(r.e)
               /\ pc' = "except"
               /\ UNCHANGED parsed_accounts
    /\ UNCHANGED <<pages, statement_product, page_idx, statement_date_global,
                   sub_accounts, todo, walk, result, cli, fn_arg, fn_ret>>

\* the loop over the accounts is exhausted: return the record
ReturnStatement ==
    /\ pc = "account"
    /\ todo = <<>>
    /\ result' = Some([statement_product |-> Val(statement_product),
                       statement_date |-> Val(statement_date_global),
                       sub_accounts |-> parsed_accounts])
    /\ pc' = "returned"
    /\ UNCHANGED <<pages, statement_product, page_idx, statement_date_global,
                   sub_accounts, todo, walk, parsed_accounts, error, cli,
                   fn_arg, fn_ret>>

\* main reporting the error and also printing the accounts serialized so far
MainExcept_partial ==
    /\ pc = "except"
    /\ cli' = [stdout |-> IF parsed_accounts # <<>> THEN Some(parsed_accounts) ELSE None,
               outfile |-> None,
               stderr |-> Some("ERROR"),
               exit_code |-> Some(1)]
    /\ pc' = "exit"
    /\ UNCHANGED <<pages, statement_product, page_idx, statement_date_global,
                   sub_accounts, todo, walk, parsed_accounts, error, result,
                   fn_arg, fn_ret>>

\* main: parse_statement raised.  A ParseError is caught, reported on stderr and
\* main returns 1; any other exception leaves main (the interpreter prints the
\* traceback on stderr and exits with status 1).
MainExcept ==
    /\ pc = "except"
    /\ cli' = [stdout |-> None, outfile |-> None,
               stderr |-> Some(IF Val(error).exc = "ParseError"
                               THEN "ERROR" ELSE "Traceback"),
               exit_code |-> Some(1)]
    /\ pc' = "exit"
    /\ UNCHANGED <<pages, statement_product, page_idx, statement_date_global,
                   sub_accounts, todo, walk, parsed_accounts, error, result,
                   fn_arg, fn_ret>>

\* main: parse_statement returned; render and write.  `output` and `pretty` are
\* the command line's --output and --pretty.
MainWrite ==
    /\ pc = "returned"
    /\ \E output \in BOOLEAN, pretty \in BOOLEAN :
         LET indent == IF pretty \/ output THEN Some(2) ELSE None
             rendered == [json |-> Val(result), indent |-> indent, newline |-> FALSE]
         IN cli' = IF output
                   THEN [stdout |-> None,
                         outfile |-> Some([rendered EXCEPT !.newline = indent # None]),
                         stderr |-> None, exit_code |-> Some(0)]
                   ELSE [stdout |-> Some([rendered EXCEPT !.newline = TRUE]),
                         outfile |-> None,
                         stderr |-> None, exit_code |-> Some(0)]
    /\ pc' = "exit"
    /\ UNCHANGED <<pages, statement_product, page_idx, statement_date_global,
                   sub_accounts, todo, walk, parsed_accounts, error, result,
                   fn_arg, fn_ret>>

(***************************************************************************)
(* SpecValidate: validation, serialization and output of one reconstructed *)
(* SubAccount drawn from a bounded set of reconstructions.                 *)
(***************************************************************************)
\* what a transaction line and its continuation lines state: posted amount,
\* credit suffix, the optional foreign-currency pair, the optional rate
ValShape(amount, is_credit, ccy, ccy_amount, rate) ==
    [amount |-> amount, is_credit |-> is_credit, ccy |-> ccy,
     ccy_amount |-> ccy_amount, rate |-> rate]

ValShapes ==
    { ValShape(100, FALSE, None, None, None),
      ValShape(100, TRUE, None, None, None),
      \* JPY 5000.00 at 0.052 is 260.00: posted 0.05 off, 0.06 off
      ValShape(26005, FALSE, Some("JPY"), Some(500000), Some(Rate(52, 3))),
      ValShape(26006, FALSE, Some("JPY"), Some(500000), Some(Rate(52, 3))),
      \* USD 1.50 at 0.33 is 0.495, which rounds half up to 0.50
      ValShape(55, TRUE, Some("USD"), Some(150), Some(Rate(33, 2))),
      \* a foreign pair without a rate, a rate without a foreign pair
      ValShape(100, FALSE, Some("JPY"), Some(500000), None),
      ValShape(100, FALSE, None, None, Some(Rate(1, 0))),
      \* a pair labelled RMB
      ValShape(100, FALSE, Some("RMB"), Some(100), None) }

MaxValTx == 2

ValCard == 11

\* the Transaction the line walk builds from such a line on an account of the
\* given base currency (lines 653-680), with its rate continuation applied
ValTransaction(shape, base_currency, i) ==
    [NewTransaction([y |-> 2024, m |-> 1, d |-> 1], [y |-> 2024, m |-> 1, d |-> 1],
                    <<"MERCHANT">>, shape.amount,
                    IF shape.is_credit THEN -shape.amount ELSE shape.amount,
                    shape.is_credit,
                    IF shape.is_credit THEN "refund_or_credit" ELSE "purchase_or_charge",
                    ValCard, "JOHN", None,
                    IF shape.ccy # None THEN shape.ccy ELSE Some(base_currency),
                    IF Truthy(shape.ccy_amount) THEN shape.ccy_amount
                    ELSE Some(shape.amount),
                    <<1, i + 1>>)
     EXCEPT !.exchange_rate = shape.rate]

ValShapeSeqs == UNION {[1..n -> ValShapes] : n \in 0..MaxValTx}

\* a declared figure: not stated, stated as the true value, stated one cent off
Declared(true_value) ==
    {None, Some(true_value + 1)}
        \cup (IF true_value >= 0 THEN {Some(true_value)} ELSE {})

ValAccount(amount_currency, previous_balance, shapes, credit, purchases, summary, total, header) ==
    [NewSubAccount(1, Some(sub_currency_from_amount_currency(amount_currency)),
                   Some(amount_currency), header)
     EXCEPT !.cards = IF shapes = <<>> THEN <<>> ELSE [c \in {ValCard} |-> "JOHN"],
            !.previous_balance = previous_balance,
            !.statement_balance_summary = summary,
            !.summary_credit_payment = credit,
            !.summary_purchases_and_instalments = purchases,
            !.summary_total_account_balance = total,
            !.transactions =
                [i \in 1..Len(shapes) |->
                    ValTransaction(shapes[i],
                                   canonical_base_currency(amount_currency), i)]]

ValInit ==
    /\ pc = "validate"
    /\ pages = <<>>
    /\ statement_product = Some("PULSE")
    /\ page_idx = 0
    /\ statement_date_global = Some([y |-> 2024, m |-> 1, d |-> 1])
    /\ \E amount_currency \in {"HKD", "CNY", "RMB"},
          previous_balance \in {None, Some(0), Some(100)},
          shapes \in ValShapeSeqs :
         LET txs == [i \in 1..Len(shapes) |-> shapes[i]]
             credits == SumAmounts(txs, TRUE)
             debits == SumAmounts(txs, FALSE)
             net == (IF previous_balance = None THEN 0 ELSE Val(previous_balance))
                    + debits - credits
         IN \E credit \in Declared(credits), purchases \in Declared(debits),
               summary \in Declared(net), total \in Declared(net),
               header \in Declared(net) :
              sub_accounts = [a \in {1} |->
                  ValAccount(amount_currency, previous_balance, shapes, credit,
                             purchases, summary, total, header)]
    /\ todo = <<>>
    /\ walk = [IdleWalk EXCEPT !.account = Some(1)]
    /\ parsed_accounts = <<>>
    /\ error = None
    /\ result = None
    /\ cli = IdleCli
    /\ fn_arg = None
    /\ fn_ret = None

ValNext == Validate \/ Serialize \/ ReturnStatement \/ MainExcept \/ MainWrite

SpecValidate == ValInit /\ [][ValNext]_vars

\* the account under validation, and the figures the claims speak of
ValAcct == sub_accounts[1]

ValPassed == pc \in {"serialize", "account", "returned", "exit"} /\ error = None

ValRejected == pc \in {"except", "exit"} /\ error # None /\ Val(error).exc = "ParseError"

ValDecided == pc # "validate"

ValCredits == SumAmounts(ValAcct.transactions, TRUE)

ValDebits == SumAmounts(ValAcct.transactions, FALSE)

ValNet == Val(ValAcct.previous_balance) + ValDebits - ValCredits

ValAnchors ==
    {a \in {ValAcct.statement_balance_summary,
            ValAcct.summary_total_account_balance,
            ValAcct.statement_balance_header} : a # None}

\* C1: when a SubAccount passes validate_sub_account, previous_balance + debits
\* - credits equals every balance anchor that is present (so any two present
\* anchors are equal); when a present anchor differs from that net, the
\* SubAccount is rejected with a ParseError.
C1_Reconciliation ==
    /\ ValPassed =>
          /\ ValAcct.previous_balance # None
          /\ \A a \in ValAnchors : Val(a) = ValNet
          /\ \A a, b \in ValAnchors : a = b
    /\ (/\ ValDecided
        /\ ValAcct.previous_balance # None
        /\ \E a \in ValAnchors : Val(a) # ValNet) => ValRejected

\* passed with the summary balance and the header balance both declared and a
\* debit and a credit among the transactions
C1_Witness ==
    /\ pc = "serialize"
    /\ ValAcct.statement_balance_summary # None
    /\ ValAcct.statement_balance_header # None
    /\ ValCredits > 0
    /\ ValDebits > 0
    /\ ValAcct.previous_balance = Some(100)

ValBase == IF Val(ValAcct.amount_currency) = "HKD" THEN "HKD" ELSE "CNY"

\* currency_amount * exchange_rate, rounded half up to cents, is within 0.05
\* of the posted amount: some c with |c - amount| <= 5 has
\* c - 1/2 <= currency_amount * rate < c + 1/2
WithinTolerance(tx) ==
    LET r == Val(tx.exchange_rate)
        x2 == 2 * Val(tx.currency_amount) * r.num
    IN \E c \in (tx.amount - 5)..(tx.amount + 5) :
          /\ (2 * c - 1) * Pow10(r.scale) <= x2
          /\ x2 < (2 * c + 1) * Pow10(r.scale)

ValTxs == {ValAcct.transactions[i] : i \in 1..Len(ValAcct.transactions)}

\* C2: in a SubAccount that passes validation, a transaction whose currency
\* differs from the base currency has an exchange rate and its converted amount,
\* rounded half up to cents, is within 0.05 of the posted amount, and a
\* transaction in the base currency has no exchange rate; a foreign transaction
\* without a rate or outside the tolerance, and a base-currency transaction
\* with a rate, are rejected with a ParseError.
C2_ForeignCurrency ==
    /\ ValPassed =>
          \A tx \in ValTxs :
             IF Val(tx.currency) # ValBase
             THEN tx.exchange_rate # None /\ WithinTolerance(tx)
             ELSE tx.exchange_rate = None
    /\ (/\ ValDecided
        /\ \E tx \in ValTxs :
              \/ Val(tx.currency) # ValBase /\ tx.exchange_rate = None
              \/ /\ Val(tx.currency) # ValBase
                 /\ tx.exchange_rate # None
                 /\ ~WithinTolerance(tx)
              \/ Val(tx.currency) = ValBase /\ tx.exchange_rate # None)
       => ValRejected

\* passed with a foreign transaction exactly 0.05 off and one that is within
\* the tolerance only because 0.495 rounds up
C2_Witness ==
    /\ pc = "serialize"
    /\ \E tx \in ValTxs : tx.amount = 26005 /\ tx.exchange_rate # None
    /\ \E tx \in ValTxs : tx.amount = 55 /\ tx.exchange_rate # None

\* C3: after validation, the sum of the credit transactions equals the declared
\* CREDIT/PAYMENT figure when one was seen and is zero when none was, and the
\* sum of the other transactions equals the declared PURCHASES AND INSTALMENTS
\* figure when one was seen and is zero when none was; every other combination
\* is rejected with a ParseError, a declared credit figure that differs from
\* the credits with "Credit summary mismatch".
C3_SummaryTotals ==
    /\ ValPassed =>
          /\ IF ValAcct.summary_credit_payment # None
             THEN ValCredits = Val(ValAcct.summary_credit_payment)
             ELSE ValCredits = 0
          /\ IF ValAcct.summary_purchases_and_instalments # None
             THEN ValDebits = Val(ValAcct.summary_purchases_and_instalments)
             ELSE ValDebits = 0
    /\ (/\ ValDecided
        /\ \/ ValCredits # (IF ValAcct.summary_credit_payment # None
                            THEN Val(ValAcct.summary_credit_payment) ELSE 0)
           \/ ValDebits # (IF ValAcct.summary_purchases_and_instalments # None
                           THEN Val(ValAcct.summary_purchases_and_instalments)
                           ELSE 0))
       => ValRejected
    /\ (/\ ValDecided
        /\ ValAcct.previous_balance # None
        /\ \A tx \in ValTxs : Val(tx.currency) = ValBase /\ tx.exchange_rate = None
        /\ ValAcct.summary_credit_payment # None
        /\ ValCredits # Val(ValAcct.summary_credit_payment))
       => error = Some(ParseError("Credit summary mismatch", 0, 0))

\* passed with a declared credit figure and a credit transaction, and no
\* purchases figure
C3_Witness ==
    /\ pc = "serialize"
    /\ ValAcct.summary_credit_payment = Some(100)
    /\ ValCredits = 100
    /\ ValAcct.summary_purchases_and_instalments = None

\* C4: a SubAccount with none of the three balance anchors is rejected with a
\* ParseError whatever its transactions, and every emitted sub-account has at
\* least one anchor.
C4_AnchorRequired ==
    /\ (ValDecided /\ ValAnchors = {}) => ValRejected
    /\ parsed_accounts # <<>> => ValAnchors # {}

\* an account whose totals agree and that has no anchor is rejected for the
\* missing anchors
C4_Witness ==
    /\ pc = "except"
    /\ ValAnchors = {}
    /\ ValAcct.transactions # <<>>
    /\ error = Some(ParseError("Missing statement balance anchors", 0, 0))

\* the first recorded value of statement-balance summary, total-account-balance
\* summary, header balance, else the net of previous balance and transactions
ValFirstPresent ==
    IF ValAcct.statement_balance_summary # None
    THEN Val(ValAcct.statement_balance_summary)
    ELSE IF ValAcct.summary_total_account_balance # None
    THEN Val(ValAcct.summary_total_account_balance)
    ELSE IF ValAcct.statement_balance_header # None
    THEN Val(ValAcct.statement_balance_header)
    ELSE ValNet

\* C11: the statement_balance of an emitted sub-account is the first recorded
\* value, in the order statement-balance summary, total-account-balance
\* summary, header balance, computed net, a recorded 0.00 included.
C11_EffectiveBalance ==
    parsed_accounts # <<>> =>
        parsed_accounts[1].statement_balance = money_to_json(ValFirstPresent)

\* an account is emitted whose statement-balance summary is a recorded 0.00
C11_Witness ==
    /\ parsed_accounts # <<>>
    /\ ValAcct.statement_balance_summary = Some(0)
    /\ parsed_accounts[1].statement_balance = money_to_json(0)

\* C28: a SubAccount without a previous balance is rejected with "Missing
\* previous balance", whatever its transactions and anchors; the previous
\* balance of a serialized sub-account is the one its PREVIOUS BALANCE line
\* stated, never a default.
C28_PreviousRequired ==
    /\ (ValDecided /\ ValAcct.previous_balance = None) =>
          /\ ValRejected
          /\ Val(error).msg = "Missing previous balance"
          /\ parsed_accounts = <<>>
    /\ \A k \in 1..Len(parsed_accounts) :
          /\ ValAcct.previous_balance # None
          /\ parsed_accounts[k].previous_balance
                = money_to_json(Val(ValAcct.previous_balance))

\* rejected without a previous balance: no transactions, and the header
\* balance and the summary balance both 0.00
C28_Witness ==
    /\ pc = "except"
    /\ Val(error).msg = "Missing previous balance"
    /\ ValAcct.transactions = <<>>
    /\ ValAcct.statement_balance_header = Some(0)
    /\ ValAcct.statement_balance_summary = Some(0)

\* the number of cents a serialized amount states
JsonCents(j) == (IF j.neg THEN -1 ELSE 1) * (j.whole * 100 + j.frac)

RECURSIVE EmittedAmounts(_)
\* the serialized transactions of the cards, as (amount, is_credit)
EmittedAmounts(cards) ==
    IF cards = <<>> THEN <<>>
    ELSE [i \in 1..Len(Head(cards).transactions) |->
             [amount |-> JsonCents(Head(cards).transactions[i].amount),
              is_credit |-> Head(cards).transactions[i].is_credit]]
         \o EmittedAmounts(Tail(cards))

\* C29: the statement_balance of every serialized sub-account equals its
\* serialized previous_balance plus the serialized debits minus the
\* serialized credits, whichever balance anchors the account has and whatever
\* they state.
C29_EmittedBalance ==
    \A k \in 1..Len(parsed_accounts) :
        LET out == parsed_accounts[k]
            amounts == EmittedAmounts(out.cards)
        IN JsonCents(out.statement_balance)
              = JsonCents(out.previous_balance)
                + SumAmounts(amounts, FALSE) - SumAmounts(amounts, TRUE)

\* serialized with a previous balance of 1.00 and a credit of 1.00: the
\* total account balance, its only anchor, states 0.00
C29_Witness ==
    /\ Len(parsed_accounts) = 1
    /\ ValAcct.previous_balance = Some(100)
    /\ ValCredits = 100 /\ ValDebits = 0
    /\ ValAcct.statement_balance_summary = None
    /\ ValAcct.summary_total_account_balance = Some(0)
    /\ ValAcct.statement_balance_header = None
    /\ JsonCents(parsed_accounts[1].statement_balance) = 0

(***************************************************************************)
(* SpecWalk: parse_sub_account, validation and output of one account whose *)
(* pages are read line by line, each line drawn from a bounded set.        *)
(***************************************************************************)
L_PREVIOUS(tok) == <<W("PREVIOUS"), W("BALANCE"), tok>>

L_STATEMENT(tok) == <<W("STATEMENT"), W("BALANCE"), tok>>

L_CREDIT(tok) == <<W("CREDIT/PAYMENT"), W(":"), tok>>

L_PURCHASES(tok) == <<W("PURCHASES"), W("AND"), W("INSTALMENTS"), W(":"), tok>>

L_TOTAL(tok) == <<W("TOTAL"), W("ACCOUNT"), W("BALANCE"), W(":"), tok>>

L_CARD(n, name) == <<C(n)>> \o [i \in 1..Len(name) |-> W(name[i])]

L_TX(post, trans, description, tok) == <<post, trans>> \o description \o <<tok>>

L_RATE(tok) == <<W("*EXCHANGE"), W("RATE:"), tok>>

L_APPLE == <<W("APPLE"), W("PAY-MOBILE:1234")>>

L_UNIONPAY == <<W("UnionPay"), W("QR")>>

L_OTHER == <<W("Page"), M(1, 0, FALSE)>>

WalkLines ==
    { <<>>,
      L_PREVIOUS(M(0, 2, FALSE)),
      L_PREVIOUS(M(100, 2, FALSE)),
      L_PREVIOUS(M(100, 2, TRUE)),
      L_STATEMENT(M(100, 2, FALSE)),
      L_CREDIT(M(100, 2, TRUE)),
      L_CREDIT(M(100, 2, FALSE)),
      L_CREDIT(M(0, 2, FALSE)),
      L_PURCHASES(M(100, 2, FALSE)),
      L_TOTAL(M(100, 2, FALSE)),
      L_CARD(11, <<"JOHN", "SMITH">>),
      L_CARD(11, <<"BOB">>),
      L_CARD(12, <<"ANN">>),
      L_CARD(13, <<"PULSE">>),
      L_TX(D(1, "JAN"), D(2, "JAN"), <<W("AMAZON")>>, M(100, 2, FALSE)),
      L_TX(D(1, "JAN"), D(2, "JAN"), <<W("PAID"), W("BY"), W("AUTOPAY")>>,
           M(100, 2, TRUE)),
      L_TX(D(1, "JAN"), D(2, "JAN"), <<W("AMAZON"), W("JP"), W("JPY"),
           M(500000, 2, FALSE)>>, M(26005, 2, FALSE)),
      L_TX(D(1, "JAN"), D(2, "JAN"), <<W("AMAZON")>>, M(1000, 1, FALSE)),
      L_APPLE,
      L_UNIONPAY,
      L_RATE(M(52, 3, FALSE)),
      L_RATE(M(520, 4, FALSE)),
      L_RATE(M(6, 2, FALSE)),
      L_RATE(N("1.2.3")),
      L_OTHER }

MaxWalkLines == 3

MaxWalkPages == 2

WalkInit ==
    /\ pc = "walk"
    /\ pages = <<>>
    /\ statement_product = Some("PULSE")
    /\ page_idx = 0
    /\ statement_date_global = Some([y |-> 2024, m |-> 1, d |-> 15])
    /\ \E header \in {None, Some(100)} :
         sub_accounts = [a \in {1} |-> NewSubAccount(1, Some("HKD"), Some("HKD"), header)]
    /\ todo = <<>>
    /\ walk = [IdleWalk EXCEPT !.account = Some(1), !.page = 1, !.line_no = 1]
    /\ parsed_accounts = <<>>
    /\ error = None
    /\ result = None
    /\ cli = IdleCli
    /\ fn_arg = None
    /\ fn_ret = None

\* the next line of the current page
WalkFreshLine ==
    /\ pc = "walk"
    /\ walk.n < MaxWalkLines
    /\ \E line \in WalkLines : WalkStep(line, walk.page)

\* the current page is exhausted and another follows: last_tx = None
WalkFreshPage ==
    /\ pc = "walk"
    /\ walk.page < MaxWalkPages
    /\ walk.line_no > 1
    /\ walk' = [walk EXCEPT !.page = @ + 1, !.line_no = 1, !.last_tx = None]
    /\ UNCHANGED <<pc, pages, statement_product, page_idx, statement_date_global,
                   sub_accounts, todo, parsed_accounts, error, result, cli,
                   fn_arg, fn_ret>>

\* the last page is exhausted: parse_sub_account returns
WalkFreshEnd ==
    /\ pc = "walk"
    /\ walk.line_no > 1
    /\ pc' = "validate"
    /\ UNCHANGED <<pages, statement_product, page_idx, statement_date_global,
                   sub_accounts, todo, walk, parsed_accounts, error, result, cli,
                   fn_arg, fn_ret>>

WalkNext ==
    \/ WalkFreshLine
    \/ WalkFreshPage
    \/ WalkFreshEnd
    \/ Validate
    \/ Serialize
    \/ ReturnStatement
    \/ MainExcept
    \/ MainWrite

SpecWalk == WalkInit /\ [][WalkNext]_vars

\* a step of the walk that read a line: it went on, or it raised
LineStep == pc = "walk" /\ (walk'.n = walk.n + 1 \/ pc' = "except")

\* the line is a summary line, a cardholder header, a transaction line, or a
\* continuation line while a transaction is there to attach it to
Recognized(line, last_tx) ==
    \/ PREVIOUS_BALANCE_RE(line) # None
    \/ STATEMENT_BALANCE_RE(line) # None
    \/ SUMMARY_CREDIT_RE(line) # None
    \/ SUMMARY_PURCHASE_RE(line) # None
    \/ SUMMARY_TOTAL_RE(line) # None
    \/ CARD_HOLDER_RE(line) /\ is_probable_cardholder(SubSeq(line, 2, Len(line)))
    \/ TRANSACTION_RE(line)
    \/ CONTINUATION_RE(line) /\ last_tx # None

\* C6 as claimed: every non-blank line that is not recognized raises.
C6_AsClaimed ==
    [][(LineStep /\ Val(walk'.line) # <<>>
                 /\ ~Recognized(Val(walk'.line), walk.last_tx))
          => pc' = "except"]_vars

\* C6, amended: a non-blank line that is not recognized raises a ParseError
\* exactly when it starts with a DDMON token or with the name of a summary
\* line; every other such line is skipped and leaves the account, the current
\* cardholder and the last transaction as they were.
C6_UnmatchedLines ==
    [][(LineStep /\ Val(walk'.line) # <<>>
                 /\ ~Recognized(Val(walk'.line), walk.last_tx))
          => IF TransactionLike(Val(walk'.line))
                \/ MalformedSummaryPrefix(Val(walk'.line))
             THEN pc' = "except" /\ Val(error').exc = "ParseError"
             ELSE /\ pc' = "walk"
                  /\ error' = None
                  /\ sub_accounts' = sub_accounts
                  /\ walk'.current_card_number = walk.current_card_number
                  /\ walk'.last_tx = walk.last_tx]_vars

\* a line of other text was read after a transaction and the walk went on
C6_Witness ==
    /\ pc = "walk"
    /\ walk.line = Some(L_OTHER)
    /\ walk.last_tx # None

(***************************************************************************)
(* SpecCurrency: validation of a SubAccount whose transactions carry the   *)
(* labels CNY, RMB, JPY or none, each with or without an exchange rate of  *)
(* 1; the summary figures and the header balance state the true values.    *)
(***************************************************************************)
CurrencyShapes ==
    { ValShape(100, FALSE, ccy, IF ccy = None THEN None ELSE Some(100), rate) :
        ccy \in {None, Some("CNY"), Some("RMB"), Some("JPY")},
        rate \in {None, Some(Rate(1, 0))} }

CurrencyInit ==
    /\ pc = "validate"
    /\ pages = <<>>
    /\ statement_product = Some("PULSE")
    /\ page_idx = 0
    /\ statement_date_global = Some([y |-> 2024, m |-> 1, d |-> 1])
    /\ \E amount_currency \in {"HKD", "CNY", "RMB"},
          previous_balance \in {Some(0), Some(100)},
          n \in 0..MaxValTx :
         \E shapes \in [1..n -> CurrencyShapes] :
            LET debits == 100 * n
                net == Val(previous_balance) + debits
            IN sub_accounts = [a \in {1} |->
                  ValAccount(amount_currency, previous_balance, shapes, None,
                             IF n = 0 THEN None ELSE Some(debits),
                             None, None, Some(net))]
    /\ todo = <<>>
    /\ walk = [IdleWalk EXCEPT !.account = Some(1)]
    /\ parsed_accounts = <<>>
    /\ error = None
    /\ result = None
    /\ cli = IdleCli
    /\ fn_arg = None
    /\ fn_ret = None

SpecCurrency == CurrencyInit /\ [][ValNext]_vars

\* the transactions labelled CNY or RMB
RenminbiTxs == {tx \in ValTxs : Val(tx.currency) \in {"CNY", "RMB"}}

\* C24: on an account whose amount currency is CNY or RMB, a transaction
\* labelled CNY or RMB is a base-currency transaction whichever label each
\* side carries: validation passes no such transaction with an exchange rate,
\* and an account all of whose transactions are such and carry no rate passes.
C24_SameBaseCurrency ==
    (ValDecided /\ Val(ValAcct.amount_currency) \in {"CNY", "RMB"}) =>
        /\ ValPassed => \A tx \in RenminbiTxs : tx.exchange_rate = None
        /\ (\A tx \in ValTxs : tx \in RenminbiTxs /\ tx.exchange_rate = None)
              => ValPassed

\* an RMB account is rejected for the missing exchange rate of its one
\* transaction, which is labelled RMB
C24_Witness ==
    /\ pc = "except"
    /\ Val(error).msg = "Missing exchange rate"
    /\ ValAcct.amount_currency = Some("RMB")
    /\ Len(ValAcct.transactions) = 1
    /\ ValAcct.transactions[1].currency = Some("RMB")

(***************************************************************************)
(* SpecTx: the walk of an account of four lines: PREVIOUS BALANCE, a        *)
(* cardholder header, one transaction line whose description is any         *)
(* sequence of at most MaxDescLen tokens of TxWords and whose amount        *)
(* carries CR or not, and a summary line.                                   *)
(***************************************************************************)
TxWords ==
    { W("PAID"), W("BY"), W("AUTOPAY"), W("Paid"), W("by"), W("Autopay"),
      W("PREPAID"), W("AUTOPAYMENT"), W("AMAZON"), W("HK"), W("JPY"),
      M(500000, 2, FALSE), M(0, 2, FALSE) }

MaxDescLen == 3

TxDescriptions == UNION { [1..k -> TxWords] : k \in 1..MaxDescLen }

TxInit ==
    /\ pc = "walk"
    /\ pages = <<>>
    /\ statement_product = Some("PULSE")
    /\ page_idx = 0
    /\ statement_date_global = Some([y |-> 2024, m |-> 1, d |-> 15])
    /\ \E header \in {None, Some(100)} :
         sub_accounts = [a \in {1} |-> NewSubAccount(1, Some("HKD"), Some("HKD"), header)]
    /\ todo = <<>>
    /\ walk = [IdleWalk EXCEPT !.account = Some(1), !.page = 1, !.line_no = 1]
    /\ parsed_accounts = <<>>
    /\ error = None
    /\ result = None
    /\ cli = IdleCli
    /\ fn_arg = None
    /\ fn_ret = None

\* line 1: PREVIOUS BALANCE 0.00
TxPreviousLine ==
    /\ pc = "walk"
    /\ walk.n = 0
    /\ WalkStep(L_PREVIOUS(M(0, 2, FALSE)), walk.page)

\* line 2: the cardholder header
TxCardLine ==
    /\ pc = "walk"
    /\ walk.n = 1
    /\ WalkStep(L_CARD(11, <<"JOHN", "SMITH">>), walk.page)

\* line 3: the transaction
TxLine ==
    /\ pc = "walk"
    /\ walk.n = 2
    /\ \E description \in TxDescriptions, cr \in BOOLEAN :
         WalkStep(L_TX(D(1, "JAN"), D(2, "JAN"), description, M(100, 2, cr)),
                  walk.page)

\* line 4: the summary line of the debits or of the credits
TxSummaryLine ==
    /\ pc = "walk"
    /\ walk.n = 3
    /\ \E line \in {L_PURCHASES(M(100, 2, FALSE)), L_CREDIT(M(100, 2, TRUE))} :
         WalkStep(line, walk.page)

\* the page is exhausted: parse_sub_account returns
TxEnd ==
    /\ pc = "walk"
    /\ walk.n = 4
    /\ pc' = "validate"
    /\ UNCHANGED <<pages, statement_product, page_idx, statement_date_global,
                   sub_accounts, todo, walk, parsed_accounts, error, result, cli,
                   fn_arg, fn_ret>>

TxNext ==
    \/ TxPreviousLine
    \/ TxCardLine
    \/ TxLine
    \/ TxSummaryLine
    \/ TxEnd
    \/ Validate
    \/ Serialize
    \/ ReturnStatement
    \/ MainExcept
    \/ MainWrite

SpecTx == TxInit /\ [][TxNext]_vars

\* the transactions the walk has built so far
AllTransactions ==
    UNION { { sub_accounts[a].transactions[i] :
                i \in 1..Len(sub_accounts[a].transactions) } :
            a \in DOMAIN sub_accounts }

\* C9: a transaction is a payment exactly when it is a credit whose
\* upper-cased description contains PAID BY AUTOPAY, a refund_or_credit
\* exactly when it is any other credit, and a purchase_or_charge exactly when
\* it is not a credit, whatever its description says.
C9_TransactionKind ==
    \A tx \in AllTransactions :
        /\ tx.kind \in {"payment", "refund_or_credit", "purchase_or_charge"}
        /\ tx.kind = "payment"
             <=> (tx.is_credit /\ ContainsPaidByAutopay(tx.description))
        /\ tx.kind = "refund_or_credit"
             <=> (tx.is_credit /\ ~ContainsPaidByAutopay(tx.description))
        /\ tx.kind = "purchase_or_charge" <=> ~tx.is_credit

\* a debit whose description reads Paid by Autopay is a purchase_or_charge
C9_Witness ==
    \E tx \in AllTransactions :
        /\ ~tx.is_credit
        /\ tx.description = <<W("Paid"), W("by"), W("Autopay")>>
        /\ tx.kind = "purchase_or_charge"

\* the description of the transaction line just walked (line 3 of SpecTx)
TxDescriptionRead == SubSeq(Val(walk.line), 3, Len(Val(walk.line)) - 1)

\* the description ends with a currency code and an amount, after a token
EndsWithCurrencyPair(description) ==
    /\ Len(description) >= 3
    /\ ALPHA3_RE(description[Len(description) - 1])
    /\ PLAIN_AMOUNT_RE(description[Len(description)])

\* C23: the transaction of a line whose description ends with a currency
\* code and an amount, after at least one token, has that code as its
\* currency and that amount as its currency_amount, 0.00 included; the
\* transaction of any other line has the base currency and its posted amount.
C23_CurrencyPair ==
    (pc = "walk" /\ walk.n = 3) =>
        LET description == TxDescriptionRead
            n == Len(description)
            tx == sub_accounts[1].transactions[1]
        IN /\ Len(sub_accounts[1].transactions) = 1
           /\ IF EndsWithCurrencyPair(description)
              THEN /\ tx.currency = Some(description[n - 1].s)
                   /\ tx.currency_amount = Some(description[n].units)
              ELSE /\ tx.currency = Some("HKD")
                   /\ tx.currency_amount = Some(tx.amount)

\* AMAZON JPY 0.00 posted as 1.00: the currency is JPY, the currency amount
\* is the posted 1.00
C23_Witness ==
    /\ pc = "walk" /\ walk.n = 3
    /\ TxDescriptionRead = <<W("AMAZON"), W("JPY"), M(0, 2, FALSE)>>
    /\ sub_accounts[1].transactions[1].currency = Some("JPY")
    /\ sub_accounts[1].transactions[1].currency_amount = Some(100)

(***************************************************************************)
(* parse_statement: product, page classification                           *)
(***************************************************************************)
\* What the header patterns find on a page, and the page's lines.
\*   card_type       the product infer_statement_product reads off the page
\*   statement_date  the groups of STATEMENT_DATE_RE
\*   title_date      the result of extract_header_statement_date
\*   amount_header   the group of AMOUNT_HEADER_RE
\*   account_header  the groups of ACCOUNT_HEADER_RE
\*   single_balance  the groups of SINGLE_BALANCE_RE
Page(card_type, statement_date, title_date, amount_header, account_header, single_balance, lines) ==
    [card_type |-> card_type,
     statement_date |-> statement_date,
     title_date |-> title_date,
     amount_header |-> amount_header,
     account_header |-> account_header,
     single_balance |-> single_balance,
     lines |-> lines]

\* (\d{2})\s+([A-Z]{3})\s+(\d{4})
DateGroups(d, mon, y) == [d |-> d, mon |-> mon, y |-> y]

AccountHeader(account_number, sub_ccy, amount_ccy, balance) ==
    [account_number |-> account_number, sub_ccy |-> sub_ccy,
     amount_ccy |-> amount_ccy, balance |-> balance]

SingleBalance(date, amount_ccy, balance) ==
    [date |-> date, amount_ccy |-> amount_ccy, balance |-> balance]

\* the first page that shows a product decides
infer_statement_product(doc) ==
    LET found == {i \in 1..Len(doc) : doc[i].card_type # None}
    IN IF found = {}
       THEN Raise(ParseError("Could not infer statement product from PDF", 0, 0))
       ELSE Ok(Val(doc[CHOOSE i \in found : \A j \in found : i <= j].card_type))

\* the new value of statement_date_global, or the exception
record_statement_date(current, groups, page) ==
    IF upper(groups.mon) \notin DOMAIN MONTHS
    THEN Raise(ParseError("Unsupported statement month", page, 0))
    ELSE LET month == MONTHS[upper(groups.mon)]
             parsed_stmt_date == [y |-> groups.y, m |-> month, d |-> groups.d]
         IN IF ~IsRealDate(groups.y, month, groups.d)
            THEN Raise(ValueError("day is out of range for month", page, 0))
            ELSE IF current = None THEN Ok(Some(parsed_stmt_date))
            ELSE IF parsed_stmt_date # Val(current)
            THEN Raise(ParseError("Statement date mismatch", page, 0))
            ELSE Ok(current)

\* the header patterns admit HKD, CNY and RMB in any case only, so the
\* function's raise is never taken on their groups
normalize_currency(raw) == upper(raw)

\* the smallest 16-digit number of the page text, if any
extract_first_card_number(lines) ==
    LET found == UNION { { lines[i][j].n :
                             j \in {k \in 1..Len(lines[i]) : lines[i][k].t = "c"} } :
                         i \in 1..Len(lines) }
    IN {n \in found : \A m \in found : n <= m}

\* the 16-digit numbers anywhere in the page text
extract_unique_card_numbers(lines) ==
    UNION { { lines[i][j].n : j \in {k \in 1..Len(lines[i]) : lines[i][k].t = "c"} } :
            i \in 1..Len(lines) }

\* sub_accounts with account `a` added or replaced
WithAccount(accounts, a, account) ==
    [b \in (DOMAIN accounts) \cup {a} |-> IF b = a THEN account ELSE accounts[b]]

\* the page is appended to every account there is
AppendPage_to_every_account(accounts, a, page, lines) ==
    [b \in DOMAIN accounts |->
        [accounts[b] EXCEPT !.pages = Append(@, PageBlock(page, lines))]]

\* existing.pages.append(PageBlock(page_number=page_idx, lines=lines))
AppendPage(accounts, a, page, lines) ==
    [accounts EXCEPT ![a].pages = Append(@, PageBlock(page, lines))]

\* the latest header replaces what was recorded
upsert_account_header_overwrites(accounts, account_number, sub_currency, amount_currency, statement_balance, page) ==
    Ok(WithAccount(accounts, account_number,
           IF account_number \in DOMAIN accounts
           THEN [accounts[account_number] EXCEPT
                    !.sub_account_currency = Some(sub_currency),
                    !.amount_currency = Some(amount_currency),
                    !.statement_balance_header = Some(statement_balance)]
           ELSE NewSubAccount(account_number, Some(sub_currency),
                              Some(amount_currency), Some(statement_balance))))

\* the new sub_accounts, or the exception
upsert_account_header(accounts, account_number, sub_currency, amount_currency, statement_balance, page) ==
    IF account_number \notin DOMAIN accounts
    THEN Ok(WithAccount(accounts, account_number,
                        NewSubAccount(account_number, Some(sub_currency),
                                      Some(amount_currency), Some(statement_balance))))
    ELSE LET existing == accounts[account_number]
         IN IF /\ existing.sub_account_currency # None
               /\ Val(existing.sub_account_currency) # sub_currency
            THEN Raise(ParseError("Sub-account currency changed", page, 0))
            ELSE IF /\ existing.amount_currency # None
                    /\ Val(existing.amount_currency) # amount_currency
            THEN Raise(ParseError("Amount currency changed", page, 0))
            ELSE IF /\ existing.statement_balance_header # None
                    /\ Val(existing.statement_balance_header) # statement_balance
            THEN Raise(ParseError("Header statement balance changed", page, 0))
            ELSE Ok([accounts EXCEPT
                       ![account_number].sub_account_currency = Some(sub_currency),
                       ![account_number].amount_currency = Some(amount_currency),
                       ![account_number].statement_balance_header =
                           Some(statement_balance)])

\* the page has no header and one 16-digit number: lines 480-509
fallback_page(accounts, account_number, page_amount_currency, page) ==
    IF account_number \notin DOMAIN accounts
    THEN Ok(WithAccount(accounts, account_number,
                NewSubAccount(account_number,
                    IF page_amount_currency # None
                    THEN Some(sub_currency_from_amount_currency(Val(page_amount_currency)))
                    ELSE None,
                    page_amount_currency, None)))
    ELSE IF page_amount_currency = None THEN Ok(accounts)
    ELSE LET existing == accounts[account_number]
             expected_sub == sub_currency_from_amount_currency(Val(page_amount_currency))
         IN IF /\ existing.amount_currency # None
               /\ existing.amount_currency # page_amount_currency
            THEN Raise(ParseError("Amount currency changed", page, 0))
            ELSE IF /\ existing.sub_account_currency # None
                    /\ Val(existing.sub_account_currency) # expected_sub
            THEN Raise(ParseError("Sub-account currency changed", page, 0))
            ELSE Ok([accounts EXCEPT
                       ![account_number].amount_currency =
                           IF @ # None THEN @ ELSE page_amount_currency,
                       ![account_number].sub_account_currency =
                           IF @ # None THEN @ ELSE Some(expected_sub)])

\* one iteration of the page loop: [sub_accounts, statement_date_global] after
\* it, or the exception
classify_page(page, page_no, accounts, date_global) ==
    LET dated ==
            IF page.statement_date # None
            THEN record_statement_date(date_global, Val(page.statement_date), page_no)
            ELSE IF date_global = None /\ page.title_date # None
            THEN record_statement_date(date_global, Val(page.title_date), page_no)
            ELSE Ok(date_global)
        page_amount_currency ==
            IF page.amount_header # None
            THEN Some(normalize_currency(Val(page.amount_header))) ELSE None
        page_accounts == extract_unique_card_numbers(page.lines)
        Done(upserted, a, date) ==
            IF ~upserted.ok THEN upserted
            ELSE Ok([sub_accounts |-> AppendPage(upserted.v, a, page_no, page.lines),
                     statement_date_global |-> date])
    IN IF ~dated.ok THEN dated
       ELSE IF page.account_header # None
       THEN LET h == Val(page.account_header)
                sub_ccy == normalize_currency(h.sub_ccy)
                amount_ccy == normalize_currency(h.amount_ccy)
            IN IF sub_ccy = "HKD" /\ amount_ccy # "HKD"
               THEN Raise(ParseError("Currency mismatch", page_no, 0))
               ELSE IF sub_ccy = "RMB" /\ amount_ccy \notin {"CNY", "RMB"}
               THEN Raise(ParseError("Currency mismatch", page_no, 0))
               ELSE Done(upsert_account_header(accounts, h.account_number, sub_ccy,
                                               amount_ccy, h.balance, page_no),
                         h.account_number, dated.v)
       ELSE IF page.single_balance # None
       THEN LET s == Val(page.single_balance)
                redated == record_statement_date(dated.v, s.date, page_no)
                amount_ccy == normalize_currency(s.amount_ccy)
            IN IF ~redated.ok THEN redated
               ELSE IF Cardinality(page_accounts) # 1
               THEN Raise(ParseError("Single-account balance header without unique account",
                                     page_no, 0))
               ELSE LET a == CHOOSE x \in page_accounts : TRUE
                    IN Done(upsert_account_header(
                                accounts, a,
                                sub_currency_from_amount_currency(amount_ccy),
                                amount_ccy, s.balance, page_no),
                            a, redated.v)
       ELSE IF Cardinality(page_accounts) = 1
       THEN LET a == CHOOSE x \in page_accounts : TRUE
            IN Done(fallback_page(accounts, a, page_amount_currency, page_no),
                    a, dated.v)
       ELSE Ok([sub_accounts |-> accounts, statement_date_global |-> dated.v])

\* the order in which the pages first name the accounts
account_order_by_page(accounts) ==
    LET first(a) == accounts[a].pages[1].page_number
        RECURSIVE Order(_)
        Order(S) ==
            IF S = {} THEN <<>>
            ELSE LET m == CHOOSE x \in S : \A y \in S : first(x) <= first(y)
                 IN <<m>> \o Order(S \ {m})
    IN Order(DOMAIN accounts)

\* sorted(sub_accounts.values(), key=lambda s: s.account_number)
account_order(accounts) == SortedSeq(DOMAIN accounts)

(***************************************************************************)
(* Spec: main on a document of at most MaxPages pages drawn from PageSet.  *)
(***************************************************************************)
\* reader = PdfReader(...); statement_product = infer_statement_product(reader)
InferProduct ==
    /\ pc = "start"
    /\ IF pages = <<>>
       THEN /\ error' = Some(ParseError("PDF has no pages", 0, 0))
            /\ pc' = "except"
            /\ UNCHANGED statement_product
       ELSE LET r == infer_statement_product(pages)
            IN IF r.ok
               THEN /\ statement_product' = Some(r.v)
                    /\ pc' = "classify"
                    /\ UNCHANGED error
               ELSE /\ error' = Some(r.e)
                    /\ pc' = "except"
                    /\ UNCHANGED statement_product
    /\ UNCHANGED <<pages, page_idx, statement_date_global, sub_accounts, todo, walk,
                   parsed_accounts, result, cli, fn_arg, fn_ret>>

\* one iteration of `for page_idx, page in enumerate(reader.pages, start=1)`
ClassifyPage ==
    /\ pc = "classify"
    /\ page_idx < Len(pages)
    /\ LET r == classify_page(pages[page_idx + 1], page_idx + 1, sub_accounts,
                              statement_date_global)
       IN IF r.ok
          THEN /\ sub_accounts' = r.v.sub_accounts
               /\ statement_date_global' = r.v.statement_date_global
               /\ page_idx' = page_idx + 1
               /\ UNCHANGED <<pc, error>>
          ELSE /\ error' = Some(r.e)
               /\ pc' = "except"
               /\ UNCHANGED <<sub_accounts, statement_date_global, page_idx>>
    /\ UNCHANGED <<pages, statement_product, todo, walk, parsed_accounts, result,
                   cli, fn_arg, fn_ret>>

\* the page loop is exhausted: lines 511-520
EndClassify ==
    /\ pc = "classify"
    /\ page_idx = Len(pages)
    /\ IF statement_date_global = None
       THEN /\ error' = Some(ParseError("Could not find statement date in PDF", 0, 0))
            /\ pc' = "except"
            /\ UNCHANGED todo
       ELSE IF DOMAIN sub_accounts = {}
       THEN /\ error' = Some(ParseError("Could not find any HSBC HK account pages", 0, 0))
            /\ pc' = "except"
            /\ UNCHANGED todo
       ELSE /\ todo' = account_order(sub_accounts)
            /\ pc' = "account"
            /\ UNCHANGED error
    /\ UNCHANGED <<pages, statement_product, page_idx, statement_date_global,
                   sub_accounts, walk, parsed_accounts, result, cli, fn_arg, fn_ret>>

\* the next account, the cardholder of the previous walk kept
BeginAccount_keeps_card ==
    /\ pc = "account"
    /\ todo # <<>>
    /\ LET a == Head(todo)
           account == sub_accounts[a]
       IN IF account.amount_currency = None /\ account.sub_account_currency = None
          THEN /\ error' = Some(ParseError("Could not determine currency for account", 0, 0))
               /\ pc' = "except"
               /\ UNCHANGED <<sub_accounts, todo, walk>>
          ELSE /\ sub_accounts' =
                     [sub_accounts EXCEPT
                        ![a].amount_currency =
                            IF @ # None THEN @
                            ELSE IF Val(account.sub_account_currency) = "RMB"
                            THEN Some("CNY") ELSE Some("HKD"),
                        ![a].sub_account_currency =
                            IF @ # None THEN @
                            ELSE Some(sub_currency_from_amount_currency(
                                          Val(account.amount_currency)))]
               /\ todo' = Tail(todo)
               /\ walk' = [IdleWalk EXCEPT !.account = Some(a), !.page = 1,
                                           !.line_no = 1,
                                           !.current_card_number = walk.current_card_number]
               /\ pc' = "walk"
               /\ UNCHANGED error
    /\ UNCHANGED <<pages, statement_product, page_idx, statement_date_global,
                   parsed_accounts, result, cli, fn_arg, fn_ret>>

\* the next iteration of the loop over the accounts, up to the first line of
\* parse_sub_account's walk: lines 521-526 and 539-542
BeginAccount ==
    /\ pc = "account"
    /\ todo # <<>>
    /\ LET a == Head(todo)
           account == sub_accounts[a]
       IN IF account.amount_currency = None /\ account.sub_account_currency = None
          THEN /\ error' = Some(ParseError("Could not determine currency for account", 0, 0))
               /\ pc' = "except"
               /\ UNCHANGED <<sub_accounts, todo, walk>>
          ELSE /\ sub_accounts' =
                     [sub_accounts EXCEPT
                        ![a].amount_currency =
                            IF @ # None THEN @
                            ELSE IF Val(account.sub_account_currency) = "RMB"
                            THEN Some("CNY") ELSE Some("HKD"),
                        ![a].sub_account_currency =
                            IF @ # None THEN @
                            ELSE Some(sub_currency_from_amount_currency(
                                          Val(account.amount_currency)))]
               /\ todo' = Tail(todo)
               /\ walk' = [IdleWalk EXCEPT !.account = Some(a), !.page = 1,
                                           !.line_no = 1]
               /\ pc' = "walk"
               /\ UNCHANGED error
    /\ UNCHANGED <<pages, statement_product, page_idx, statement_date_global,
                   parsed_accounts, result, cli, fn_arg, fn_ret>>

\* the page of the current account the walk is on; walk.page is its index in
\* account.pages
WalkPage == sub_accounts[cur].pages[walk.page]

\* one iteration of `for line_no, raw_line in enumerate(page.lines, start=1)`
WalkLine ==
    /\ pc = "walk"
    /\ walk.line_no <= Len(WalkPage.lines)
    /\ WalkStep(WalkPage.lines[walk.line_no], WalkPage.page_number)

\* the next page, the last transaction of the previous page kept
NextPage_keeps_last_tx ==
    /\ pc = "walk"
    /\ walk.line_no > Len(WalkPage.lines)
    /\ walk.page < Len(sub_accounts[cur].pages)
    /\ walk' = [walk EXCEPT !.page = @ + 1, !.line_no = 1]
    /\ UNCHANGED <<pc, pages, statement_product, page_idx, statement_date_global,
                   sub_accounts, todo, parsed_accounts, error, result, cli,
                   fn_arg, fn_ret>>

\* the page's lines are exhausted and the account has another page
NextPage ==
    /\ pc = "walk"
    /\ walk.line_no > Len(WalkPage.lines)
    /\ walk.page < Len(sub_accounts[cur].pages)
    /\ walk' = [walk EXCEPT !.page = @ + 1, !.line_no = 1, !.last_tx = None]
    /\ UNCHANGED <<pc, pages, statement_product, page_idx, statement_date_global,
                   sub_accounts, todo, parsed_accounts, error, result, cli,
                   fn_arg, fn_ret>>

\* the account's last page is exhausted: parse_sub_account returns
EndWalk ==
    /\ pc = "walk"
    /\ walk.line_no > Len(WalkPage.lines)
    /\ walk.page = Len(sub_accounts[cur].pages)
    /\ pc' = "validate"
    /\ UNCHANGED <<pages, statement_product, page_idx, statement_date_global,
                   sub_accounts, todo, walk, parsed_accounts, error, result, cli,
                   fn_arg, fn_ret>>

JAN15 == Some(DateGroups(15, "JAN", 2024))

HKD_HEADER(account_number, balance) ==
    Some(AccountHeader(account_number, "HKD", "HKD", balance))

TX_debit == L_TX(D(1, "JAN"), D(2, "JAN"), <<W("AMAZON")>>, M(100, 2, FALSE))

TX_one_decimal == L_TX(D(1, "JAN"), D(2, "JAN"), <<W("AMAZON")>>, M(1000, 1, FALSE))

JOHN == L_CARD(1, <<"JOHN", "SMITH">>)

ANN == L_CARD(2, <<"ANN">>)

BOB == L_CARD(4, <<"BOB">>)

\* account 1 on one page, consistent
P_A1 ==
    Page(Some("PULSE"), JAN15, None, Some("HKD"), HKD_HEADER(1, 100), None,
         << L_PREVIOUS(M(0, 2, FALSE)), JOHN, TX_debit, L_PURCHASES(M(100, 2, FALSE)) >>)

\* account 2 on one page, consistent, its two cards interleaved
P_A2 ==
    Page(Some("VISA SIGNATURE"), JAN15, None, None, HKD_HEADER(2, 300), None,
         << L_PREVIOUS(M(0, 2, FALSE)), BOB, TX_debit, ANN, TX_debit, L_UNIONPAY,
            BOB, TX_debit, L_PURCHASES(M(300, 2, FALSE)) >>)

\* account 1 on two pages, consistent together: the header page ...
P_H1 ==
    Page(None, JAN15, None, None, HKD_HEADER(1, 200), None,
         << L_PREVIOUS(M(0, 2, FALSE)), JOHN, TX_debit >>)

\* ... and a page without header
P_T1 ==
    Page(None, None, None, Some("HKD"), None, None,
         << <<>>, JOHN, TX_debit, L_PURCHASES(M(200, 2, FALSE)) >>)

\* account 1 under the single-account balance header
P_S1 ==
    Page(None, None, None, None, None,
         Some(SingleBalance(DateGroups(15, "JAN", 2024), "HKD", 100)),
         << L_PREVIOUS(M(0, 2, FALSE)), JOHN, TX_debit, L_PURCHASES(M(100, 2, FALSE)) >>)

\* account 1 with a transaction line of one decimal on line 3
P_F1 ==
    Page(None, JAN15, None, None, HKD_HEADER(1, 100), None,
         << L_PREVIOUS(M(0, 2, FALSE)), JOHN, TX_one_decimal >>)

\* account 2 with a transaction line of one decimal on line 1
P_F2 ==
    Page(Some("PULSE"), JAN15, None, None, HKD_HEADER(2, 300), None,
         << TX_one_decimal >>)

\* account 2 whose totals contradict its header; a different statement date
P_V2 ==
    Page(Some("PULSE"), Some(DateGroups(16, "JAN", 2024)), None, None,
         HKD_HEADER(2, 300), None,
         << L_PREVIOUS(M(0, 2, FALSE)), ANN, TX_debit, L_PURCHASES(M(100, 2, FALSE)) >>)

\* a header whose currencies contradict each other
P_C2 ==
    Page(None, JAN15, None, None, Some(AccountHeader(2, "HKD", "CNY", 300)), None, <<>>)

\* no header and no 16-digit number: a title date, a day that does not exist
P_B ==
    Page(Some("PULSE"), None, Some(DateGroups(31, "FEB", 2024)), None, None, None,
         << L_OTHER, TX_one_decimal >>)

\* a 16-digit number and nothing that names a currency
P_N3 ==
    Page(None, JAN15, None, None, None, None, << L_CARD(3, <<"LEE">>) >>)

\* account 1 on one page, "Statement date 31 FEB 2024"
P_D ==
    Page(Some("PULSE"), Some(DateGroups(31, "FEB", 2024)), None, Some("HKD"),
         HKD_HEADER(1, 100), None,
         << L_PREVIOUS(M(0, 2, FALSE)), JOHN, TX_debit, L_PURCHASES(M(100, 2, FALSE)) >>)

\* account 2 whose first line is a transaction, its cardholder header after it
P_X2 ==
    Page(None, JAN15, None, None, HKD_HEADER(2, 100), None,
         << TX_debit, ANN, L_PREVIOUS(M(0, 2, FALSE)) >>)

\* the single-account balance header on a page with two 16-digit numbers
P_S12 ==
    Page(None, None, None, None, None,
         Some(SingleBalance(DateGroups(15, "JAN", 2024), "HKD", 100)),
         << JOHN, TX_debit, ANN, TX_debit >>)

\* no header, and two 16-digit numbers
P_M12 ==
    Page(None, JAN15, None, Some("HKD"), None, None, << JOHN, TX_debit, ANN >>)

PageSet ==
    { P_A1, P_A2, P_H1, P_T1, P_S1, P_F1, P_F2, P_V2, P_C2, P_B, P_D, P_N3, P_X2,
      P_S12, P_M12 }

MaxPages == 3

Documents == UNION { [1..k -> PageSet] : k \in 0..MaxPages }

Init ==
    /\ pc = "start"
    /\ pages \in Documents
    /\ statement_product = None
    /\ page_idx = 0
    /\ statement_date_global = None
    /\ sub_accounts = <<>>
    /\ todo = <<>>
    /\ walk = IdleWalk
    /\ parsed_accounts = <<>>
    /\ error = None
    /\ result = None
    /\ cli = IdleCli
    /\ fn_arg = None
    /\ fn_ret = None

Next ==
    \/ InferProduct
    \/ ClassifyPage
    \/ EndClassify
    \/ BeginAccount
    \/ WalkLine
    \/ NextPage
    \/ EndWalk
    \/ Validate
    \/ Serialize
    \/ ReturnStatement
    \/ MainExcept
    \/ MainWrite

Spec == Init /\ [][Next]_vars

\* the exception came from a line of the walk, from the classification of a
\* page, from the validation of the current account
RaisedByLine == error # None /\ Val(error).line > 0

RaisedByPage == error # None /\ Val(error).page > 0 /\ Val(error).line = 0

RaisedByValidation ==
    /\ error # None
    /\ walk.account # None
    /\ walk.page = Len(sub_accounts[cur].pages)
    /\ walk.line_no > Len(WalkPage.lines)
    /\ error = validate_sub_account(sub_accounts[cur])

\* C5: once the walk or the validation of an account has raised, nothing is
\* returned and nothing is written to stdout or to the output file, also when
\* earlier accounts had been serialized; main reports on stderr and exits 1.
C5_NoPartialOutput ==
    error # None =>
        /\ result = None
        /\ cli.stdout = None
        /\ cli.outfile = None
        /\ pc \in {"except", "exit"}
        /\ pc = "exit" => cli.exit_code = Some(1) /\ cli.stderr # None

\* an account was serialized, a later account raised, and main has exited
C5_Witness ==
    /\ pc = "exit"
    /\ RaisedByLine \/ RaisedByValidation
    /\ parsed_accounts # <<>>
    /\ cli.stderr = Some("ERROR")

\* <<page, line>> a before <<page, line>> b in document order
Before(a, b) == a[1] < b[1] \/ (a[1] = b[1] /\ a[2] < b[2])

\* a line that raises wherever the walk reads it: it starts with a DDMON token
\* and is no transaction line, or it starts with the name of a summary line
\* and is no summary line
LineFault(line) ==
    \/ TransactionLike(line) /\ ~TRANSACTION_RE(line)
    \/ /\ MalformedSummaryPrefix(line)
       /\ PREVIOUS_BALANCE_RE(line) = None
       /\ STATEMENT_BALANCE_RE(line) = None
       /\ SUMMARY_CREDIT_RE(line) = None
       /\ SUMMARY_PURCHASE_RE(line) = None
       /\ SUMMARY_TOTAL_RE(line) = None

\* the faulty lines of the pages attributed to accounts
LineFaults ==
    UNION { UNION { { [account |-> a,
                       at |-> <<sub_accounts[a].pages[k].page_number, l>>] :
                      l \in { i \in 1..Len(sub_accounts[a].pages[k].lines) :
                                LineFault(sub_accounts[a].pages[k].lines[i]) } } :
                    k \in 1..Len(sub_accounts[a].pages) } :
            a \in DOMAIN sub_accounts }

\* a page whose classification raises whatever came before it
PageFault(page) ==
    \/ /\ page.statement_date # None
       /\ \/ Val(page.statement_date).mon \notin DOMAIN MONTHS
          \/ ~IsRealDate(Val(page.statement_date).y,
                         MONTHS[Val(page.statement_date).mon],
                         Val(page.statement_date).d)
    \/ /\ page.account_header # None
       /\ Val(page.account_header).sub_ccy = "HKD"
       /\ Val(page.account_header).amount_ccy # "HKD"

\* the accounts before `a` in the order of the account loop
AccountsBefore(a) == {b \in DOMAIN sub_accounts : b < a}

\* C7 as claimed: the error raised is the fault that comes first in document
\* order, across accounts and across line faults and validation faults.
C7_AsClaimed ==
    /\ (pc = "except" /\ Val(error).page > 0)
          => \A f \in LineFaults :
                ~Before(f.at, <<Val(error).page, Val(error).line>>)
    /\ (pc = "except" /\ RaisedByValidation)
          => \A f \in LineFaults :
                f.at[1] >= sub_accounts[cur].pages[1].page_number

\* C7, amended: the error raised is the first fault in processing order.  The
\* pages are classified first, in page order, so a page fault is raised before
\* any line is read; then the accounts are taken in ascending account number,
\* and each account's lines are read in page-then-line order and the account
\* is validated before the next account is touched.
C7_ProcessingOrder ==
    /\ (pc = "except" /\ RaisedByPage)
          => \A q \in 1..(Val(error).page - 1) : ~PageFault(pages[q])
    /\ (pc = "except" /\ RaisedByLine)
          => /\ \A q \in 1..Len(pages) : ~PageFault(pages[q])
             /\ \A f \in LineFaults :
                   \/ f.account > cur
                   \/ /\ f.account = cur
                      /\ ~Before(f.at, <<Val(error).page, Val(error).line>>)
             /\ Len(parsed_accounts) = Cardinality(AccountsBefore(cur))
    /\ (pc = "except" /\ RaisedByValidation)
          => /\ \A q \in 1..Len(pages) : ~PageFault(pages[q])
             /\ \A f \in LineFaults : f.account > cur
             /\ Len(parsed_accounts) = Cardinality(AccountsBefore(cur))

\* a line of an account raised although a faulty line of a higher-numbered
\* account lies on an earlier page
C7_Witness ==
    /\ pc = "except"
    /\ RaisedByLine
    /\ \E f \in LineFaults : f.account > cur /\ f.at[1] < Val(error).page

\* the transactions of the reconstructed account and card, as positions
WalkedAt(account_number, card_number) ==
    { sub_accounts[account_number].transactions[i].at :
        i \in { j \in 1..Len(sub_accounts[account_number].transactions) :
                  sub_accounts[account_number].transactions[j].card_number
                      = card_number } }

\* C10: in the record returned, the sub-accounts ascend by account number, the
\* cards of each sub-account ascend by card number, and the transactions of
\* each card are all the card's transactions, in the order in which the walk
\* of the account's pages met their lines.
C10_OutputOrder ==
    result # None =>
        LET out == Val(result).sub_accounts
        IN /\ \A i, j \in 1..Len(out) :
                 i < j => out[i].account_number < out[j].account_number
           /\ \A a \in 1..Len(out) :
                 /\ \A i, j \in 1..Len(out[a].cards) :
                       i < j => out[a].cards[i].card_number
                                    < out[a].cards[j].card_number
                 /\ \A c \in 1..Len(out[a].cards) :
                       LET txs == out[a].cards[c].transactions
                       IN /\ \A i, j \in 1..Len(txs) :
                                i < j => Before(txs[i].at, txs[j].at)
                          /\ { txs[i].at : i \in 1..Len(txs) }
                                = WalkedAt(out[a].account_number,
                                           out[a].cards[c].card_number)

\* the record holds two accounts of which the higher-numbered came first in
\* the document, an account whose cards interleave, their headers in
\* descending card order, and a card with transactions on two pages
C10_Witness ==
    /\ result # None
    /\ LET out == Val(result).sub_accounts
       IN /\ \E i, j \in 1..Len(out) :
                /\ i < j
                /\ sub_accounts[out[j].account_number].pages[1].page_number
                     < sub_accounts[out[i].account_number].pages[1].page_number
          /\ \E a \in 1..Len(out) :
                \E c, d \in 1..Len(out[a].cards) :
                    /\ c < d
                    /\ Len(out[a].cards[d].transactions) >= 2
                    /\ Len(out[a].cards[c].transactions) >= 1
                    /\ Before(out[a].cards[d].transactions[1].at,
                              out[a].cards[c].transactions[1].at)
                    /\ Before(out[a].cards[c].transactions[1].at,
                              out[a].cards[d].transactions[2].at)
          /\ \E a \in 1..Len(out) :
                \E c \in 1..Len(out[a].cards) :
                    /\ Len(out[a].cards[c].transactions) >= 2
                    /\ out[a].cards[c].transactions[1].at[1]
                         < out[a].cards[c].transactions[2].at[1]

\* C13: every rejection is a ParseError: main exits with status 1 after
\* printing an "ERROR: ..." message and writes no record, also for a page
\* whose statement date names a day the month does not have.
C13_SingleErrorKind ==
    error # None =>
        /\ Val(error).exc = "ParseError"
        /\ pc = "exit" =>
              /\ cli.exit_code = Some(1)
              /\ cli.stderr = Some("ERROR")
              /\ cli.stdout = None
              /\ cli.outfile = None

\* the first page reads "Statement date 31 FEB 2024": date() raises ValueError,
\* which main does not catch
C13_Witness ==
    /\ pc = "exit"
    /\ pages # <<>>
    /\ pages[1] = P_D
    /\ error # None
    /\ Val(error).exc = "ValueError"
    /\ cli.stderr = Some("Traceback")

\* a cardholder header: a card number and a probable cardholder name
CardholderHeader(line) ==
    CARD_HOLDER_RE(line) /\ is_probable_cardholder(SubSeq(line, 2, Len(line)))

\* the lines of the account's pages, as positions <<page number, line number>>
LinesOf(a) ==
    UNION { { [at |-> <<sub_accounts[a].pages[k].page_number, l>>,
               line |-> sub_accounts[a].pages[k].lines[l]] :
              l \in 1..Len(sub_accounts[a].pages[k].lines) } :
            k \in 1..Len(sub_accounts[a].pages) }

\* the cardholder headers of the account before a position
HeadersBefore(a, at) ==
    { h \in LinesOf(a) : CardholderHeader(h.line) /\ Before(h.at, at) }

\* the position the walk of the current account is at
WalkAt == <<WalkPage.page_number, walk.line_no>>

\* C14: a transaction line is accepted only after a cardholder header of the
\* same account (on the same or an earlier page of it), and is attributed to
\* the latest such header; a transaction line with no cardholder header before
\* it in its own account is a hard error, whatever earlier accounts held.
C14_CardholderContext ==
    /\ \A a \in DOMAIN sub_accounts :
         \A i \in 1..Len(sub_accounts[a].transactions) :
            LET tx == sub_accounts[a].transactions[i]
                hs == HeadersBefore(a, tx.at)
            IN /\ hs # {}
               /\ \A h \in hs :
                     (\A g \in hs : ~Before(h.at, g.at)) =>
                        /\ tx.card_number = h.line[1].n
                        /\ tx.cardholder_name = sub_accounts[a].cards[h.line[1].n]
                        /\ tx.cardholder_name
                             = [n \in 1..(Len(h.line) - 1) |-> h.line[n + 1].s]
    /\ (pc \in {"walk", "except"} /\ walk.account # None) =>
         \A x \in LinesOf(cur) :
            (TRANSACTION_RE(x.line) /\ HeadersBefore(cur, x.at) = {}) =>
               /\ ~Before(x.at, WalkAt)
               /\ (x.at = WalkAt /\ RaisedByLine) =>
                     Val(error) = ParseError("Transaction before any cardholder header",
                                             x.at[1], x.at[2])

\* account 1 was walked with its cardholder and emitted; the first line of
\* account 2 is a transaction, and it is refused for want of a cardholder
C14_Witness ==
    /\ pc = "except"
    /\ parsed_accounts # <<>>
    /\ sub_accounts[1].transactions # <<>>
    /\ cur = 2
    /\ Val(error).msg = "Transaction before any cardholder header"
    /\ WalkAt[2] = 1

\* the distinct 16-digit numbers of a page
NumbersOn(page) ==
    { n \in 1..16 : \E i \in 1..Len(page.lines) :
                       \E j \in 1..Len(page.lines[i]) : page.lines[i][j] = C(n) }

\* the accounts that hold a block of page i
Holders(i) ==
    { a \in DOMAIN sub_accounts :
        \E k \in 1..Len(sub_accounts[a].pages) : sub_accounts[a].pages[k].page_number = i }

\* the accounts the priority chain gives page i to
Attribution(i) ==
    IF pages[i].account_header # None
    THEN {Val(pages[i].account_header).account_number}
    ELSE IF pages[i].single_balance # None \/ Cardinality(NumbersOn(pages[i])) = 1
    THEN NumbersOn(pages[i])
    ELSE {}

\* the errors of the statement-date step, which precedes the attribution
DateErrors ==
    {"Unsupported statement month", "day is out of range for month",
     "Statement date mismatch"}

\* C20: a classified page is held by the account of its full account header
\* and by no other; else, under the single-account balance header, by the one
\* 16-digit number of the page, and the classification raises unless there is
\* exactly one; else, with exactly one 16-digit number, by that number's
\* account; else by no account, without an error of the attribution.
C20_PageAttribution ==
    /\ \A i \in 1..Len(pages) :
         IF i <= page_idx
         THEN /\ Holders(i) = Attribution(i)
              /\ \A a \in Holders(i) :
                    Cardinality({k \in 1..Len(sub_accounts[a].pages) :
                                   sub_accounts[a].pages[k].page_number = i}) = 1
              /\ (pages[i].account_header = None /\ pages[i].single_balance # None)
                    => Cardinality(NumbersOn(pages[i])) = 1
         ELSE Holders(i) = {}
    /\ (pc = "except" /\ RaisedByPage) =>
         LET page == pages[Val(error).page]
             unique == Cardinality(NumbersOn(page)) = 1
         IN /\ Val(error).page = page_idx + 1
            /\ Val(error).msg = "Single-account balance header without unique account"
                  <=> /\ page.account_header = None
                      /\ page.single_balance # None
                      /\ ~unique
                      /\ Val(error).msg \notin DateErrors
            /\ (page.account_header = None /\ page.single_balance = None /\ ~unique)
                  => Val(error).msg \in DateErrors

\* the classification is over: a page with the account header of account 2 and
\* the numbers 2 and 4 is held by account 2 alone, and a page with two numbers
\* and no header by no account
C20_Witness ==
    /\ pc = "account"
    /\ \E i, j \in 1..page_idx :
          /\ pages[i] = P_A2 /\ Holders(i) = {2}
          /\ pages[j] = P_M12 /\ Holders(j) = {}

\* the page numbers in the page list of account a, in list order
PageNumbers(a) ==
    [k \in 1..Len(sub_accounts[a].pages) |-> sub_accounts[a].pages[k].page_number]

\* the accounts whose page list holds page i
AssignedTo(i) ==
    {a \in DOMAIN sub_accounts : \E k \in 1..Len(PageNumbers(a)) : PageNumbers(a)[k] = i}

\* a header pattern matches the page
HeaderDefining(page) == page.account_header # None \/ page.single_balance # None

\* C25: the page list of every SubAccount is strictly ascending and holds
\* numbers of classified pages only, no page number is in the lists of two
\* SubAccounts, and a classified page that is in no list is not a
\* header-defining page.
C25_PagePartition ==
    /\ \A a \in DOMAIN sub_accounts :
          /\ \A k \in 1..Len(PageNumbers(a)) : PageNumbers(a)[k] \in 1..page_idx
          /\ \A j, k \in 1..Len(PageNumbers(a)) :
                j < k => PageNumbers(a)[j] < PageNumbers(a)[k]
    /\ \A i \in 1..page_idx :
          /\ Cardinality(AssignedTo(i)) <= 1
          /\ AssignedTo(i) = {} => ~HeaderDefining(pages[i])

\* the pages are classified: an account holds pages 1 and 3, and page 2,
\* which names two card numbers under no header, is in no list
C25_Witness ==
    /\ pc = "account"
    /\ Len(pages) = 3
    /\ pages[2] = P_M12
    /\ \E a \in DOMAIN sub_accounts : PageNumbers(a) = <<1, 3>>
    /\ AssignedTo(2) = {}

\* the places <<card, index>> of the serialized account `out`
EmittedPlaces(out) ==
    UNION { { <<c, j>> : j \in 1..Len(out.cards[c].transactions) } :
            c \in 1..Len(out.cards) }

\* C26: the card number of every recorded transaction is a key of its
\* account's cards map and its cardholder name is the name recorded there;
\* the serialized account holds each of the account's transactions at exactly
\* one place, under the card of its number, and nothing else.
C26_CardAttribution ==
    /\ \A a \in DOMAIN sub_accounts :
          \A i \in 1..Len(sub_accounts[a].transactions) :
             LET tx == sub_accounts[a].transactions[i]
             IN /\ tx.card_number \in DOMAIN sub_accounts[a].cards
                /\ tx.cardholder_name = sub_accounts[a].cards[tx.card_number]
    /\ \A k \in 1..Len(parsed_accounts) :
          LET out == parsed_accounts[k]
              txs == sub_accounts[out.account_number].transactions
          IN /\ \A i \in 1..Len(txs) :
                   Cardinality({ p \in EmittedPlaces(out) :
                        /\ out.cards[p[1]].transactions[p[2]] = transaction_to_json(txs[i])
                        /\ out.cards[p[1]].card_number = txs[i].card_number }) = 1
             /\ Cardinality(EmittedPlaces(out)) = Len(txs)

\* an account is serialized with two cards, one of them holding two
\* transactions that another card's transaction separated on the page
C26_Witness ==
    \E k \in 1..Len(parsed_accounts) :
        /\ Len(parsed_accounts[k].cards) = 2
        /\ Len(parsed_accounts[k].cards[1].transactions) = 1
        /\ Len(parsed_accounts[k].cards[2].transactions) = 2

(***************************************************************************)
(* SpecCont: parse_sub_account on the pages of one account that open with  *)
(* a previous balance, a cardholder header and a transaction line, followed *)
(* by lines and page breaks of a bounded set; then validation and output.  *)
(***************************************************************************)
\* the end of a page's text
PAGE_BREAK == <<[t |-> "break"]>>

ContLines ==
    { <<>>,
      L_APPLE,
      L_UNIONPAY,
      L_RATE(M(52, 3, FALSE)),
      L_RATE(M(520, 4, FALSE)),
      L_RATE(M(6, 2, FALSE)),
      L_RATE(N("1.2.3")),
      L_OTHER,
      L_PURCHASES(M(100, 2, FALSE)),
      TX_debit,
      PAGE_BREAK }

MaxContLines == 3

RECURSIVE PagesOf(_, _)
\* the page blocks of a text, pages numbered from page_number
PagesOf(lines, page_number) ==
    LET breaks == {i \in 1..Len(lines) : lines[i] = PAGE_BREAK}
    IN IF breaks = {}
       THEN <<PageBlock(page_number, lines)>>
       ELSE LET i == CHOOSE b \in breaks : \A c \in breaks : b <= c
            IN <<PageBlock(page_number, SubSeq(lines, 1, i - 1))>>
                 \o PagesOf(SubSeq(lines, i + 1, Len(lines)), page_number + 1)

ContInit ==
    /\ pc = "walk"
    /\ pages = <<>>
    /\ statement_product = Some("PULSE")
    /\ page_idx = 0
    /\ statement_date_global = Some([y |-> 2024, m |-> 1, d |-> 15])
    /\ \E tail \in Strings(ContLines, MaxContLines) :
       \E tx \in {TX_debit,
                  L_TX(D(1, "JAN"), D(2, "JAN"),
                       <<W("AMAZON"), W("JP"), W("JPY"), M(500000, 2, FALSE)>>,
                       M(26005, 2, FALSE))} :
         sub_accounts =
            [a \in {1} |->
                [NewSubAccount(1, Some("HKD"), Some("HKD"), Some(100)) EXCEPT
                    !.pages = PagesOf(<<L_PREVIOUS(M(0, 2, FALSE)),
                                        L_CARD(11, <<"JOHN", "SMITH">>), tx>> \o tail, 1)]]
    /\ todo = <<>>
    /\ walk = [IdleWalk EXCEPT !.account = Some(1), !.page = 1, !.line_no = 1]
    /\ parsed_accounts = <<>>
    /\ error = None
    /\ result = None
    /\ cli = IdleCli
    /\ fn_arg = None
    /\ fn_ret = None

ContNext ==
    \/ WalkLine
    \/ NextPage
    \/ EndWalk
    \/ Validate
    \/ Serialize
    \/ ReturnStatement
    \/ MainExcept
    \/ MainWrite

SpecCont == ContInit /\ [][ContNext]_vars

\* the lines of the current account the walk has read and gone on from
ReadLines == { x \in LinesOf(cur) : Before(x.at, WalkAt) }

\* the lines of the page of `at` after `at` and before `to`
LinesBetween(at, to) ==
    { y \in LinesOf(cur) : y.at[1] = at[1] /\ at[2] < y.at[2] /\ y.at[2] < to[2] }

\* a summary line, a cardholder header or a line that starts with a DDMON token
ResetsLastTx(line) ==
    \/ PREVIOUS_BALANCE_RE(line) # None
    \/ STATEMENT_BALANCE_RE(line) # None
    \/ SUMMARY_CREDIT_RE(line) # None
    \/ SUMMARY_PURCHASE_RE(line) # None
    \/ SUMMARY_TOTAL_RE(line) # None
    \/ CardholderHeader(line)
    \/ TransactionLike(line)

\* the continuation-shaped lines read after the transaction line at `at`, on
\* its page, with nothing but blank and continuation-shaped lines in between
RunAsClaimed(at) ==
    { x \in ReadLines :
        /\ x.at[1] = at[1] /\ x.at[2] > at[2]
        /\ CONTINUATION_RE(x.line)
        /\ \A y \in LinesBetween(at, x.at) : y.line = <<>> \/ CONTINUATION_RE(y.line) }

\* the same, with no summary line, cardholder header or transaction-like line
\* in between
RunOf(at) ==
    { x \in ReadLines :
        /\ x.at[1] = at[1] /\ x.at[2] > at[2]
        /\ CONTINUATION_RE(x.line)
        /\ \A y \in LinesBetween(at, x.at) : ~ResetsLastTx(y.line) }

\* what the transaction holds of exchange rate, payment method and notes is
\* stated by a line of the run
ModifiedOnlyBy(tx, run) ==
    /\ tx.exchange_rate # None =>
          \E x \in run : EXCHANGE_RATE_RE(x.line) = tx.exchange_rate
    /\ tx.payment_method # None =>
          \E x \in run : \/ APPLE_PAY_RE(x.line) /\ tx.payment_method = Some("APPLE_PAY")
                         \/ UNIONPAY_QR_RE(x.line) /\ tx.payment_method = Some("UNIONPAY_QR")
    /\ \A n \in 1..Len(tx.notes) : \E x \in run : x.line = tx.notes[n]

\* C15 as claimed: a continuation-shaped line changes a transaction only when
\* nothing but blank and continuation-shaped lines lie between the two on the
\* page; any other non-blank line, recognized or not, ends the run.
C15_AsClaimed ==
    \A i \in 1..Len(sub_accounts[cur].transactions) :
        ModifiedOnlyBy(sub_accounts[cur].transactions[i],
                       RunAsClaimed(sub_accounts[cur].transactions[i].at))

\* C15, amended: a continuation-shaped line changes a transaction only when it
\* follows the transaction's line on the same page with no summary line, no
\* cardholder header and no other transaction line in between; blank lines and
\* lines the walk skips as unrecognized do not end the run.
C15_ContinuationRun ==
    \A i \in 1..Len(sub_accounts[cur].transactions) :
        ModifiedOnlyBy(sub_accounts[cur].transactions[i],
                       RunOf(sub_accounts[cur].transactions[i].at))

\* a transaction took its payment method from a line that follows a skipped,
\* unrecognized line
C15_Witness ==
    /\ pc = "walk"
    /\ \E i \in 1..Len(sub_accounts[cur].transactions) :
         LET tx == sub_accounts[cur].transactions[i]
         IN /\ tx.payment_method # None
            /\ ~ModifiedOnlyBy(tx, RunAsClaimed(tx.at))
            /\ \E y \in LinesBetween(tx.at, WalkAt) : y.line = L_OTHER

\* the two rates are the same number
SameNumber(a, b) == a.num * Pow10(b.scale) = b.num * Pow10(a.scale)

\* the payment method a line states
MethodOf(line) ==
    IF APPLE_PAY_RE(line) THEN Some("APPLE_PAY")
    ELSE IF UNIONPAY_QR_RE(line) THEN Some("UNIONPAY_QR")
    ELSE None

\* C16: the exchange rate and the payment method of a transaction are written
\* once: no step changes a value that is set; a continuation line of the
\* transaction sets the value when none is set, is accepted without change when
\* it states the same number (the same method), and raises when it states
\* another.
C16_SingleWrite ==
    [][\A i \in 1..Len(sub_accounts[1].transactions) :
          LET tx == sub_accounts[1].transactions[i]
              after == sub_accounts'[1].transactions[i]
              line == WalkPage.lines[walk.line_no]
              rate == EXCHANGE_RATE_RE(line)
              method == MethodOf(line)
          IN /\ tx.exchange_rate # None => after.exchange_rate = tx.exchange_rate
             /\ tx.payment_method # None => after.payment_method = tx.payment_method
             /\ (LineStep /\ walk.last_tx = Some(i) /\ rate # None) =>
                   IF tx.exchange_rate = None
                   THEN pc' = "walk" /\ after.exchange_rate = rate
                   ELSE IF SameNumber(Val(tx.exchange_rate), Val(rate))
                   THEN pc' = "walk" /\ after = tx
                   ELSE /\ pc' = "except"
                        /\ Val(error').msg = "Conflicting exchange rate"
             /\ (LineStep /\ walk.last_tx = Some(i) /\ method # None) =>
                   IF tx.payment_method = None
                   THEN pc' = "walk" /\ after.payment_method = method
                   ELSE IF tx.payment_method = method
                   THEN pc' = "walk" /\ after = tx
                   ELSE /\ pc' = "except"
                        /\ Val(error').msg = "Conflicting payment method"]_vars

\* a transaction whose rate 0.052 was stated again as 0.0520, the walk going on
C16_Witness ==
    /\ pc = "walk"
    /\ \E i \in 1..Len(sub_accounts[cur].transactions) :
         LET tx == sub_accounts[cur].transactions[i]
         IN \E x, y \in RunOf(tx.at) :
               /\ Before(x.at, y.at)
               /\ EXCHANGE_RATE_RE(x.line) = tx.exchange_rate
               /\ EXCHANGE_RATE_RE(y.line) # None
               /\ EXCHANGE_RATE_RE(y.line) # tx.exchange_rate

\* C17: the card-number -> cardholder-name map of a sub-account only grows: no
\* step changes or removes an entry; the first cardholder header of a card
\* number records its name, a later one with the same name changes nothing, a
\* later one with another name raises.
C17_CardsAppendOnly ==
    [][LET cards == sub_accounts[1].cards
           after == sub_accounts'[1].cards
       IN /\ \A c \in DOMAIN cards : c \in DOMAIN after /\ after[c] = cards[c]
          /\ IF LineStep /\ CardholderHeader(Val(walk'.line))
             THEN LET line == Val(walk'.line)
                      card_number == line[1].n
                      card_name == [i \in 1..(Len(line) - 1) |-> line[i + 1].s]
                  IN IF card_number \notin DOMAIN cards
                     THEN /\ pc' = "walk"
                          /\ DOMAIN after = DOMAIN cards \cup {card_number}
                          /\ after[card_number] = card_name
                     ELSE IF cards[card_number] = card_name
                     THEN pc' = "walk" /\ after = cards
                     ELSE /\ pc' = "except"
                          /\ Val(error').msg = "Cardholder name changed"
             ELSE after = cards]_vars

\* card 11 was recorded as JOHN SMITH on the first page; a header on the second
\* page names it BOB and is refused, the entry as it was
C17_Witness ==
    /\ pc = "except"
    /\ walk.page = 2
    /\ walk.line = Some(L_CARD(11, <<"BOB">>))
    /\ Val(error).msg = "Cardholder name changed"
    /\ sub_accounts[1].cards[11] = <<"JOHN", "SMITH">>

(***************************************************************************)
(* SpecSummary: parse_sub_account on summary lines of the five kinds with  *)
(* amounts 0.00 and 100.00, with and without CR, over two pages; then       *)
(* validation and output.                                                  *)
(***************************************************************************)
SummaryFields ==
    {"previous_balance", "statement_balance_summary", "summary_credit_payment",
     "summary_purchases_and_instalments", "summary_total_account_balance"}

\* the text of the summary line of a field
SummaryLine(f, tok) ==
    CASE f = "previous_balance" -> L_PREVIOUS(tok)
      [] f = "statement_balance_summary" -> L_STATEMENT(tok)
      [] f = "summary_credit_payment" -> L_CREDIT(tok)
      [] f = "summary_purchases_and_instalments" -> L_PURCHASES(tok)
      [] f = "summary_total_account_balance" -> L_TOTAL(tok)

\* the pattern of a field applied to a line
SummaryMatch(f, line) ==
    CASE f = "previous_balance" -> PREVIOUS_BALANCE_RE(line)
      [] f = "statement_balance_summary" -> STATEMENT_BALANCE_RE(line)
      [] f = "summary_credit_payment" -> SUMMARY_CREDIT_RE(line)
      [] f = "summary_purchases_and_instalments" -> SUMMARY_PURCHASE_RE(line)
      [] f = "summary_total_account_balance" -> SUMMARY_TOTAL_RE(line)

SummaryLines ==
    { SummaryLine(f, M(units, 2, cr)) :
        f \in SummaryFields, units \in {0, 100}, cr \in BOOLEAN }

MaxSummaryLines == 3

\* the next line of the current page
SummaryFreshLine ==
    /\ pc = "walk"
    /\ walk.n < MaxSummaryLines
    /\ \E line \in SummaryLines : WalkStep(line, walk.page)

SummaryNext ==
    \/ SummaryFreshLine
    \/ WalkFreshPage
    \/ WalkFreshEnd
    \/ Validate
    \/ Serialize
    \/ ReturnStatement
    \/ MainExcept
    \/ MainWrite

SpecSummary == WalkInit /\ [][SummaryNext]_vars

\* C18: each of the five summary fields is set by its first matching line and
\* no step changes it afterwards: a later matching line with the same value
\* is accepted and changes nothing, one with another value raises a conflict.
C18_SummarySetOnce ==
    [][\A f \in SummaryFields :
          LET v == sub_accounts[1][f]
              after == sub_accounts'[1][f]
              m == SummaryMatch(f, Val(walk'.line))
              signed_as_expected ==
                  f = "summary_credit_payment" => (Val(m).cr \/ Val(m).units = 0)
          IN /\ v # None => after = v
             /\ IF LineStep /\ m # None
                THEN signed_as_expected =>
                        IF v = None
                        THEN pc' = "walk" /\ after = Some(Val(m).units)
                        ELSE IF Val(v) = Val(m).units
                        THEN pc' = "walk" /\ UNCHANGED sub_accounts
                        ELSE /\ pc' = "except"
                             /\ Val(error').msg = "Conflicting summary value"
                ELSE after = v]_vars

\* TOTAL ACCOUNT BALANCE was recorded as 100.00 on the first page and is stated
\* as 0.00 on the second: a conflict, the field as it was
C18_Witness ==
    /\ pc = "except"
    /\ walk.page = 2
    /\ walk.line = Some(L_TOTAL(M(0, 2, FALSE)))
    /\ Val(error).msg = "Conflicting summary value"
    /\ sub_accounts[1].summary_total_account_balance = Some(100)

\* C19: a PREVIOUS BALANCE, STATEMENT BALANCE, PURCHASES AND INSTALMENTS or
\* TOTAL ACCOUNT BALANCE line whose amount carries CR raises and records
\* nothing; a CREDIT/PAYMENT line whose amount is not 0.00 and carries no CR
\* raises and records nothing, so a CREDIT/PAYMENT value is recorded only from
\* an amount with CR or of 0.00.
C19_SummarySigns ==
    [][LineStep =>
          \A f \in SummaryFields :
             LET line == Val(walk'.line)
                 tok == line[Len(line)]
             IN (line # <<>> /\ tok.t = "m" /\ tok.dec = 2 /\ line = SummaryLine(f, tok)) =>
                   IF f = "summary_credit_payment"
                   THEN /\ (~tok.cr /\ tok.units # 0) =>
                              pc' = "except" /\ UNCHANGED sub_accounts
                        /\ sub_accounts'[1][f] # sub_accounts[1][f] =>
                              tok.cr \/ tok.units = 0
                   ELSE tok.cr => pc' = "except" /\ UNCHANGED sub_accounts]_vars

\* a CREDIT/PAYMENT of 0.00 without CR was recorded, and the walk has raised
\* on a STATEMENT BALANCE that carries CR
C19_Witness ==
    /\ pc = "except"
    /\ sub_accounts[1].summary_credit_payment = Some(0)
    /\ walk.line = Some(L_STATEMENT(M(100, 2, TRUE)))
    /\ sub_accounts[1].statement_balance_summary = None

(***************************************************************************)
(* SpecHeaders: parse_statement on documents whose pages differ in what    *)
(* attributes them: full account headers, single-account balance headers,  *)
(* pages with an amount-currency header or none, with one 16-digit number,  *)
(* two or none.  Every page shows the product and the same statement date.  *)
(***************************************************************************)
\* a previous balance and a statement balance of 100.00, a cardholder of card 1
HeaderLines == << L_PREVIOUS(M(100, 2, FALSE)), L_STATEMENT(M(100, 2, FALSE)), JOHN >>

\* a page with a full account header
HeaderPage(account_number, sub_ccy, amount_ccy, balance) ==
    Page(Some("PULSE"), JAN15, None, None,
         Some(AccountHeader(account_number, sub_ccy, amount_ccy, balance)), None,
         HeaderLines)

\* a page with the single-account balance header
SinglePage(amount_ccy, balance, lines) ==
    Page(Some("PULSE"), None, None, None, None,
         Some(SingleBalance(DateGroups(15, "JAN", 2024), amount_ccy, balance)), lines)

\* a page with neither header
PlainPage(amount_header, lines) ==
    Page(Some("PULSE"), JAN15, None, amount_header, None, None, lines)

\* a page of account 1 whose date stands in the title region only, as 16JAN2024
TitlePage(date) ==
    Page(Some("PULSE"), None, Some(date), Some("HKD"), None, None, HeaderLines)

HeaderPageSet ==
    { HeaderPage(1, "HKD", "HKD", 100),
      HeaderPage(1, "HKD", "HKD", 200),
      HeaderPage(1, "RMB", "CNY", 100),
      HeaderPage(1, "RMB", "RMB", 100),
      HeaderPage(1, "HKD", "CNY", 100),
      HeaderPage(2, "HKD", "HKD", 100),
      SinglePage("HKD", 100, HeaderLines),
      SinglePage("CNY", 100, HeaderLines),
      SinglePage("HKD", 100, HeaderLines \o <<ANN>>),
      PlainPage(None, HeaderLines),
      PlainPage(Some("HKD"), HeaderLines),
      PlainPage(Some("RMB"), HeaderLines),
      PlainPage(Some("HKD"), HeaderLines \o <<ANN>>),
      PlainPage(Some("HKD"), <<L_OTHER>>),
      TitlePage(DateGroups(16, "JAN", 2024)) }

MaxHeaderPages == 3

HeaderInit ==
    /\ pc = "start"
    /\ pages \in Strings(HeaderPageSet, MaxHeaderPages)
    /\ statement_product = None
    /\ page_idx = 0
    /\ statement_date_global = None
    /\ sub_accounts = <<>>
    /\ todo = <<>>
    /\ walk = IdleWalk
    /\ parsed_accounts = <<>>
    /\ error = None
    /\ result = None
    /\ cli = IdleCli
    /\ fn_arg = None
    /\ fn_ret = None

SpecHeaders == HeaderInit /\ [][Next]_vars

\* the three fields a header sighting states
HeaderFields == {"sub_account_currency", "amount_currency", "statement_balance_header"}

\* the account and the values a page's header states: a full header whose two
\* currencies go together, or a single-account balance header on a page with
\* one 16-digit number, whose sub-account currency follows from the amount
\* currency
Sighting(page) ==
    IF page.account_header # None
    THEN LET h == Val(page.account_header)
         IN IF (h.sub_ccy = "HKD" /\ h.amount_ccy = "HKD")
                 \/ (h.sub_ccy = "RMB" /\ h.amount_ccy \in {"CNY", "RMB"})
            THEN Some([account_number |-> h.account_number,
                       sub_account_currency |-> h.sub_ccy,
                       amount_currency |-> h.amount_ccy,
                       statement_balance_header |-> h.balance])
            ELSE None
    ELSE IF page.single_balance # None /\ Cardinality(NumbersOn(page)) = 1
    THEN LET b == Val(page.single_balance)
         IN Some([account_number |-> CHOOSE n \in NumbersOn(page) : TRUE,
                  sub_account_currency |-> IF b.amount_ccy = "HKD" THEN "HKD" ELSE "RMB",
                  amount_currency |-> b.amount_ccy,
                  statement_balance_header |-> b.balance])
    ELSE None

\* C21: the sub-account currency, the amount currency and the header balance
\* of an account are written once: no step changes a recorded value, and a
\* header sighting for an account that exists raises a conflict unless it
\* states what is recorded in each of the three fields (a page refused for
\* its statement date before its header is read is no sighting).
C21_HeaderFirstWrite ==
    [][/\ \A a \in DOMAIN sub_accounts : \A f \in HeaderFields :
             sub_accounts[a][f] # None =>
                 a \in DOMAIN sub_accounts' /\ sub_accounts'[a][f] = sub_accounts[a][f]
       /\ (pc = "classify" /\ page_idx < Len(pages)) =>
             LET seen == Sighting(pages[page_idx + 1])
                 a == Val(seen).account_number
                 date_refused == /\ pc' = "except"
                                 /\ Val(error').msg = "Statement date mismatch"
             IN (seen # None /\ a \in DOMAIN sub_accounts /\ ~date_refused) =>
                   IF \E f \in HeaderFields :
                         /\ sub_accounts[a][f] # None
                         /\ Val(sub_accounts[a][f]) # Val(seen)[f]
                   THEN /\ pc' = "except"
                        /\ Val(error').msg \in {"Sub-account currency changed",
                                                "Amount currency changed",
                                                "Header statement balance changed"}
                   ELSE /\ pc' = "classify"
                        /\ \A f \in HeaderFields :
                              sub_accounts'[a][f] = Some(Val(seen)[f])]_vars

\* account 1 was recorded with a header balance of 100.00; a later header of
\* the account states 200.00 and is refused
C21_Witness ==
    /\ pc = "except"
    /\ Val(error).msg = "Header statement balance changed"
    /\ 1 \in DOMAIN sub_accounts
    /\ sub_accounts[1].statement_balance_header = Some(100)
    /\ pages[page_idx + 1] = HeaderPage(1, "HKD", "HKD", 200)

\* the statement dates a page declares, in the three forms that are read
DeclaredDates(page) ==
    { [y |-> g.y, m |-> MONTHS[g.mon], d |-> g.d] :
        g \in { Val(o) : o \in {page.statement_date, page.title_date} \ {None} }
              \cup (IF page.single_balance # None
                    THEN {Val(page.single_balance).date} ELSE {}) }

\* C22: every classified page that declares a statement date, the title-region
\* form included, declares the statement date recorded, and once the pages
\* are classified without error a statement date is recorded.
C22_DateAgreement ==
    /\ \A i \in 1..page_idx :
          \A d \in DeclaredDates(pages[i]) : statement_date_global = Some(d)
    /\ pc \in {"account", "walk", "validate", "serialize", "returned"}
          => statement_date_global # None

\* the statement is returned with the date 2024-01-15 although a later page
\* declares 16JAN2024 in its title region
C22_Witness ==
    /\ result # None
    /\ statement_date_global = Some([y |-> 2024, m |-> 1, d |-> 15])
    /\ \E i \in 2..Len(pages) : pages[i] = TitlePage(DateGroups(16, "JAN", 2024))

\* the two currencies go together: HKD with HKD, RMB with CNY or RMB
ConsistentCurrencies(sub_ccy, amount_ccy) ==
    \/ sub_ccy = "HKD" /\ amount_ccy = "HKD"
    \/ sub_ccy = "RMB" /\ amount_ccy \in {"CNY", "RMB"}

\* C27: the two currency fields of a SubAccount are both unset or both set,
\* and consistent when set; every serialized sub-account carries a consistent
\* pair; no account is walked and no statement is returned while the
\* currency of an account of it is unset.
C27_CurrencyPairing ==
    /\ \A a \in DOMAIN sub_accounts :
          LET account == sub_accounts[a]
          IN IF account.sub_account_currency = None
             THEN account.amount_currency = None
             ELSE /\ account.amount_currency # None
                  /\ ConsistentCurrencies(Val(account.sub_account_currency),
                                          Val(account.amount_currency))
    /\ \A k \in 1..Len(parsed_accounts) :
          ConsistentCurrencies(parsed_accounts[k].sub_account_currency,
                               parsed_accounts[k].amount_currency)
    /\ pc \in {"walk", "validate", "serialize"}
          => sub_accounts[cur].sub_account_currency # None
    /\ result # None
          => \A a \in DOMAIN sub_accounts : sub_accounts[a].sub_account_currency # None

\* an account made by a page that names no currency is refused when its turn
\* comes, next to an account whose header set both currencies
C27_Witness ==
    /\ pc = "except"
    /\ Val(error).msg = "Could not determine currency for account"
    /\ \E a \in DOMAIN sub_accounts :
          /\ sub_accounts[a].sub_account_currency = None
          /\ sub_accounts[a].amount_currency = None
    /\ \E a \in DOMAIN sub_accounts :
          /\ sub_accounts[a].sub_account_currency = Some("HKD")
          /\ sub_accounts[a].amount_currency = Some("HKD")

(***************************************************************************)
(* SpecDdmon: parse_ddmon applied to every token of a bounded set          *)
(***************************************************************************)
DdmonDays == {0, 1, 28, 29, 30, 31, 32}

DdmonMonths == (DOMAIN MONTHS) \cup {"XXX"}

StmtYears == {2000, 2001, 2023, 2024, 2025, 2100, 2101}

StmtMonths == 1..12

DdmonInit ==
    /\ pc = "call"
    /\ fn_arg \in [token : {D(dd, mon) : dd \in DdmonDays, mon \in DdmonMonths},
                   statement_year : StmtYears,
                   statement_month : StmtMonths]
    /\ fn_ret = None
    /\ PipelineIdle

CallParseDdmon ==
    /\ pc = "call"
    /\ fn_ret' = Some(parse_ddmon(fn_arg.token, fn_arg.statement_year,
                                  fn_arg.statement_month, 1, 1))
    /\ pc' = "ret"
    /\ UNCHANGED fn_arg
    /\ PipelineUnchanged

DdmonNext == CallParseDdmon

SpecDdmon == DdmonInit /\ [][DdmonNext]_vars

\* C8: parse_ddmon resolves a token with a known month to the statement year
\* minus one when the token's month number is strictly greater than the
\* statement month and to the statement year otherwise (also when the months
\* are equal, whatever the day); a day/month that is not a real date in that
\* year is a ParseError.
C8_YearInference ==
    (pc = "ret" /\ fn_arg.token.mon \in DOMAIN MONTHS) =>
        LET m == MONTHS[fn_arg.token.mon]
            y == IF m <= fn_arg.statement_month
                 THEN fn_arg.statement_year
                 ELSE fn_arg.statement_year - 1
            r == Val(fn_ret)
        IN IF fn_arg.token.dd >= 1 /\ fn_arg.token.dd <= DaysInMonth(y, m)
           THEN r.ok /\ r.v = [y |-> y, m |-> m, d |-> fn_arg.token.dd]
           ELSE ~r.ok /\ r.e.exc = "ParseError"

\* 29FEB on a January 2024 statement: the month is greater than the statement
\* month, the inferred year is 2023, which has no 29 February
C8_Witness ==
    /\ pc = "ret"
    /\ fn_arg.token = D(29, "FEB")
    /\ fn_arg.statement_month = 1
    /\ fn_arg.statement_year = 2024
    /\ ~Val(fn_ret).ok

(***************************************************************************)
(* SpecMoney: parse_money on a money string, money_to_json on the parsed   *)
(* magnitude, parse_money on the formatted string.  A string is a sequence *)
(* of one-character strings.                                               *)
(***************************************************************************)
DIGITS == {"0", "1", "2", "3", "4", "5", "6", "7", "8", "9"}

\* int(c) of a decimal digit
DigitValue(c) ==
    CASE c = "0" -> 0 [] c = "1" -> 1 [] c = "2" -> 2 [] c = "3" -> 3
      [] c = "4" -> 4 [] c = "5" -> 5 [] c = "6" -> 6 [] c = "7" -> 7
      [] c = "8" -> 8 [] c = "9" -> 9

\* str(d) of 0..9
DigitChar(d) == CHOOSE c \in DIGITS : DigitValue(c) = d

\* str.replace(ch, "")
replace(text, ch) == SelectSeq(text, LAMBDA c : c # ch)

\* token.endswith("CR")
endswith_CR(text) ==
    /\ Len(text) >= 2
    /\ text[Len(text) - 1] = "C"
    /\ text[Len(text)] = "R"

RECURSIVE DigitsValue(_)
\* the integer a digit string writes
DigitsValue(text) ==
    IF text = <<>> THEN 0
    ELSE 10 * DigitsValue(SubSeq(text, 1, Len(text) - 1)) + DigitValue(text[Len(text)])

\* re.fullmatch(r"\d+\.\d+", text): digits, one point, digits
DecimalLiteral(text) ==
    \E i \in 2 .. Len(text) - 1 :
        /\ text[i] = "."
        /\ \A k \in (1 .. Len(text)) \ {i} : text[k] \in DIGITS

\* the token a money string is: spaces dropped, CR suffix split off, commas
\* dropped; a decimal literal is the number units / 10^dec
money_token(raw) ==
    LET token == replace(raw, " ")
        is_credit == endswith_CR(token)
        body == replace(IF is_credit THEN SubSeq(token, 1, Len(token) - 2) ELSE token, ",")
    IN IF DecimalLiteral(body)
       THEN LET point == CHOOSE i \in 1 .. Len(body) : body[i] = "."
            IN M(DigitsValue(replace(body, ".")), Len(body) - point, is_credit)
       ELSE W("?")

RECURSIVE str_int(_)
\* the decimal digits of a natural number, no leading zero
str_int(n) ==
    IF n < 10 THEN <<DigitChar(n)>>
    ELSE Append(str_int(n \div 10), DigitChar(n % 10))

\* the string money_to_json returns: "-" when negative, whole, ".", two digits
money_text(json) ==
    (IF json.neg THEN <<"-">> ELSE <<>>)
        \o str_int(json.whole)
        \o <<".", DigitChar(json.frac \div 10), DigitChar(json.frac % 10)>>

MaxIntLen == 3
MaxDecLen == 3

\* an integer part, a point or none, decimals, a suffix
MoneyStrings ==
    {int \o point \o dec \o suffix :
        int \in Strings({"0", "1", "9", ",", " "}, MaxIntLen),
        point \in {<<>>, <<".">>},
        dec \in Strings({"0", "5"}, MaxDecLen),
        suffix \in {<<>>, <<"C", "R">>, <<" ", "C", "R">>, <<"R">>, <<"C", "R", "C", "R">>}}

MoneyInit ==
    /\ pc = "call"
    /\ fn_arg \in MoneyStrings
    /\ fn_ret = None
    /\ PipelineIdle

\* parse_money(raw), and on success parse_money(money_to_json(amount))
CallParseMoney ==
    /\ pc = "call"
    /\ LET first == parse_money(money_token(fn_arg), 1, 1)
       IN IF first.ok
          THEN LET text == money_text(money_to_json(first.v.amount))
               IN fn_ret' = Some([first |-> first, text |-> Some(text),
                                  second |-> Some(parse_money(money_token(text), 1, 1))])
          ELSE fn_ret' = Some([first |-> first, text |-> None, second |-> None])
    /\ pc' = "ret"
    /\ UNCHANGED fn_arg
    /\ PipelineUnchanged

MoneyNext == CallParseMoney

SpecMoney == MoneyInit /\ [][MoneyNext]_vars

\* C12: for every string parse_money accepts, the parsed magnitude formatted by
\* money_to_json parses again to the same magnitude; the magnitude is not
\* negative, is_credit holds exactly when the string without spaces ends in
\* CR, and signed is the negated magnitude for a credit and the magnitude
\* otherwise.
C12_MoneyRoundTrip ==
    (pc = "ret" /\ Val(fn_ret).first.ok) =>
        LET first == Val(fn_ret).first.v
            second == Val(Val(fn_ret).second)
        IN /\ second.ok
           /\ second.v.amount = first.amount
           /\ first.amount >= 0
           /\ first.is_credit <=> endswith_CR(replace(fn_arg, " "))
           /\ first.signed = IF first.is_credit THEN -first.amount ELSE first.amount

\* an accepted credit string with a comma and cents whose formatted magnitude
\* is another string
C12_Witness ==
    /\ pc = "ret"
    /\ Val(fn_ret).first.ok
    /\ Val(fn_ret).first.v.is_credit
    /\ Val(fn_ret).first.v.amount % 100 # 0
    /\ "," \in {fn_arg[i] : i \in 1 .. Len(fn_arg)}
    /\ Val(Val(fn_ret).text) # fn_arg
    /\ Val(Val(fn_ret).second).ok

(***************************************************************************)
(* web/app.py: the store, the users and the scoped reads.  Account and     *)
(* card numbers are the integers of the parser's model, amounts are cents  *)
(* (the floats of the table hold two-decimal values), a text is the        *)
(* sequence of its words.                                                  *)
(***************************************************************************)
Scope(statement_products, account_numbers, card_numbers) ==
    [statement_products |-> statement_products,
     account_numbers |-> account_numbers,
     card_numbers |-> card_numbers]

User(username, role, read_scope) ==
    [username |-> username, role |-> role, read_scope |-> read_scope]

HTTPException(status_code, detail) == [status_code |-> status_code, detail |-> detail]

has_scope_match(scope, product, account_number, card_number) ==
    \/ product \in scope.statement_products
    \/ account_number \in scope.account_numbers
    \/ card_number \in scope.card_numbers

can_see_statement_in_list(user, statement) ==
    \/ user.role = "admin"
    \/ statement.statement_product \in user.read_scope.statement_products
    \/ statement.account_numbers \cap user.read_scope.account_numbers # {}
    \/ statement.card_numbers \cap user.read_scope.card_numbers # {}

\* lower(), on the words of the texts and patterns in use
lower(s) ==
    CASE s = "AMAZON" -> "amazon"
      [] s = "Amazon" -> "amazon"
      [] s = "TAXI" -> "taxi"
      [] s = "JOHN" -> "john"
      [] s = "John" -> "john"
      [] OTHER -> s

\* column.ilike("%pattern%") for a pattern of one whole word without wildcards
ilike(words, pattern) == \E i \in 1..Len(words) : lower(words[i]) = lower(pattern)

\* float(...) of a serialized amount
float(j) == (IF j.neg THEN -1 ELSE 1) * (j.whole * 100 + j.frac)

\* the empty result of where(text("1 = 0")) for a user without read scope is
\* left out: every row is selected
apply_transaction_read_scope_all_when_empty(rows, user) ==
    IF user.role = "admin" THEN rows
    ELSE LET scope == user.read_scope
         IN IF /\ scope.statement_products = {}
               /\ scope.account_numbers = {}
               /\ scope.card_numbers = {}
            THEN rows
            ELSE SelectSeq(rows, LAMBDA tx :
                    \/ tx.statement_product \in scope.statement_products
                    \/ tx.account_number \in scope.account_numbers
                    \/ tx.card_number \in scope.card_numbers)

\* the rows of the select after the scope's where clause
apply_transaction_read_scope(rows, user) ==
    IF user.role = "admin" THEN rows
    ELSE LET scope == user.read_scope
             by_product(tx) == /\ scope.statement_products # {}
                               /\ tx.statement_product \in scope.statement_products
             by_account(tx) == /\ scope.account_numbers # {}
                               /\ tx.account_number \in scope.account_numbers
             by_card(tx) == /\ scope.card_numbers # {}
                            /\ tx.card_number \in scope.card_numbers
         IN IF /\ scope.statement_products = {}
               /\ scope.account_numbers = {}
               /\ scope.card_numbers = {}
            THEN <<>>
            ELSE SelectSeq(rows, LAMBDA tx :
                    by_product(tx) \/ by_account(tx) \/ by_card(tx))

\* a date parameter as sent: a text that is an ISO date, or one that is not
IsoText(date) == [iso |-> TRUE, date |-> date]

NotADate == [iso |-> FALSE]

parse_iso_date_or_400(raw, field_name) ==
    IF raw.iso THEN Ok(raw.date)
    ELSE Raise(HTTPException(400, <<"invalid", field_name>>))

\* the order of ISO date strings
DateLE(a, b) ==
    \/ a.y < b.y
    \/ a.y = b.y /\ a.m < b.m
    \/ a.y = b.y /\ a.m = b.m /\ a.d <= b.d

\* the rows of the transactions table an uploaded statement adds, in the
\* order of the three loops
RECURSIVE CardRows(_, _, _, _)
CardRows(statement, acc, card, txs) ==
    IF txs = <<>> THEN <<>>
    ELSE LET tx == Head(txs)
         IN << [statement_id |-> statement.id,
                statement_product |-> statement.statement_product,
                account_number |-> acc.account_number,
                card_number |-> card.card_number,
                cardholder_name |-> card.cardholder_name,
                account_currency |-> acc.sub_account_currency,
                post_date |-> tx.post_date,
                transaction_date |-> tx.transaction_date,
                description |-> tx.description,
                amount |-> float(tx.amount),
                signed_amount |-> float(tx.signed_amount),
                is_credit |-> tx.is_credit,
                kind |-> tx.kind,
                payment_method |-> tx.payment_method,
                region_code_alpha2 |-> tx.region_code_alpha2,
                currency |-> tx.currency,
                currency_amount |-> float(Val(tx.currency_amount)),
                exchange_rate |-> tx.exchange_rate,
                notes |-> tx.notes] >>
            \o CardRows(statement, acc, card, Tail(txs))

RECURSIVE AccountRows(_, _, _)
AccountRows(statement, acc, cards) ==
    IF cards = <<>> THEN <<>>
    ELSE CardRows(statement, acc, Head(cards), Head(cards).transactions)
         \o AccountRows(statement, acc, Tail(cards))

RECURSIVE StatementRows(_, _)
StatementRows(statement, accounts) ==
    IF accounts = <<>> THEN <<>>
    ELSE AccountRows(statement, Head(accounts), Head(accounts).cards)
         \o StatementRows(statement, Tail(accounts))

\* autoincrement: the rows get the ids after those of the table
WithIds(table, rows) ==
    table \o [i \in 1..Len(rows) |-> [id |-> Len(table) + i] @@ rows[i]]

\* upload_statement: [db, response]; `file` is the upload, its name and
\* what parse_statement makes of its content
upload_statement(db, user, file) ==
    IF user.role # "admin"
    THEN [db |-> db, response |-> Raise(HTTPException(403, "admin permission required"))]
    ELSE IF ~file.is_pdf
    THEN [db |-> db, response |-> Raise(HTTPException(400, "only PDF is supported"))]
    ELSE IF ~file.parsed.ok
    THEN [db |-> db, response |-> Raise(HTTPException(400, "parse failed"))]
    ELSE LET parsed == file.parsed.v
             account_numbers ==
                 { parsed.sub_accounts[a].account_number :
                     a \in 1..Len(parsed.sub_accounts) }
             card_numbers ==
                 UNION { { parsed.sub_accounts[a].cards[c].card_number :
                             c \in 1..Len(parsed.sub_accounts[a].cards) } :
                         a \in 1..Len(parsed.sub_accounts) }
             duplicated ==
                 \E i \in 1..Len(db.statements) :
                     /\ db.statements[i].statement_date = parsed.statement_date
                     /\ db.statements[i].statement_product = parsed.statement_product
                     /\ db.statements[i].account_numbers \cap account_numbers # {}
             st == [id |-> Len(db.statements) + 1,
                    statement_date |-> parsed.statement_date,
                    statement_product |-> parsed.statement_product,
                    uploaded_by |-> user.username,
                    account_numbers |-> account_numbers,
                    card_numbers |-> card_numbers,
                    parsed |-> parsed]
             rows == StatementRows(st, parsed.sub_accounts)
         IN IF duplicated
            THEN [db |-> db,
                  response |-> Raise(HTTPException(409, "duplicate statement detected"))]
            ELSE [db |-> [statements |-> Append(db.statements, st),
                          transactions |-> WithIds(db.transactions, rows)],
                  response |-> Ok([statement_id |-> st.id,
                                   statement_date |-> st.statement_date,
                                   statement_product |-> st.statement_product,
                                   transactions_count |-> Len(rows)])]

\* a text parameter is applied when it is stated and not empty
Stated(param) == param # None /\ Val(param) # ""

\* the dict of a row in the listing
transaction_item(tx) ==
    [id |-> tx.id,
     statement_id |-> tx.statement_id,
     statement_product |-> tx.statement_product,
     account_number |-> tx.account_number,
     card_number |-> tx.card_number,
     cardholder_name |-> tx.cardholder_name,
     account_currency |-> tx.account_currency,
     post_date |-> tx.post_date,
     transaction_date |-> tx.transaction_date,
     description |-> tx.description,
     amount |-> tx.amount,
     signed_amount |-> tx.signed_amount,
     is_credit |-> tx.is_credit,
     kind |-> tx.kind,
     payment_method |-> tx.payment_method,
     region_code_alpha2 |-> tx.region_code_alpha2,
     currency |-> tx.currency,
     currency_amount |-> tx.currency_amount,
     exchange_rate |-> tx.exchange_rate,
     notes |-> tx.notes]

\* list_transactions: the response, or the HTTPException
list_transactions(db, user, query) ==
    LET parsed_from == IF query.tx_date_from # None
                       THEN parse_iso_date_or_400(Val(query.tx_date_from), "tx_date_from")
                       ELSE Ok(None)
        parsed_to == IF query.tx_date_to # None
                     THEN parse_iso_date_or_400(Val(query.tx_date_to), "tx_date_to")
                     ELSE Ok(None)
    IN IF ~parsed_from.ok THEN parsed_from
       ELSE IF ~parsed_to.ok THEN parsed_to
       ELSE LET date_from == IF query.tx_date_from # None
                             THEN Some(parsed_from.v) ELSE None
                date_to == IF query.tx_date_to # None THEN Some(parsed_to.v) ELSE None
            IN IF /\ date_from # None /\ date_to # None
                  /\ ~DateLE(Val(date_from), Val(date_to))
               THEN Raise(HTTPException(400, "tx_date_from must be <= tx_date_to"))
               ELSE LET ordered == ReverseSeq(db.transactions)
                        scoped == apply_transaction_read_scope(ordered, user)
                        filtered == SelectSeq(scoped, LAMBDA tx :
                            /\ query.statement_id # None
                                  => tx.statement_id = Val(query.statement_id)
                            /\ Stated(query.statement_product)
                                  => tx.statement_product = Val(query.statement_product)
                            /\ query.account_number # None
                                  => tx.account_number = Val(query.account_number)
                            /\ query.card_number # None
                                  => tx.card_number = Val(query.card_number)
                            /\ Stated(query.cardholder_name)
                                  => ilike(tx.cardholder_name, Val(query.cardholder_name))
                            /\ date_from # None
                                  => DateLE(Val(date_from), tx.transaction_date)
                            /\ date_to # None
                                  => DateLE(tx.transaction_date, Val(date_to))
                            /\ Stated(query.q)
                                  => ilike([i \in 1..Len(tx.description) |->
                                               tx.description[i].s], Val(query.q)))
                        first == query.offset + 1
                        last == IF Len(filtered) < query.offset + query.limit + 1
                                THEN Len(filtered) ELSE query.offset + query.limit + 1
                        rows == SubSeq(filtered, first, last)
                        has_more == Len(rows) > query.limit
                        kept == SubSeq(rows, 1, IF has_more THEN query.limit ELSE Len(rows))
                    IN Ok([items |-> [i \in 1..Len(kept) |-> transaction_item(kept[i])],
                           offset |-> query.offset,
                           limit |-> query.limit,
                           returned |-> Len(kept),
                           has_more |-> has_more])

\* spend, refund, payment and net_spend of a sequence of rows
RECURSIVE Totals(_)
Totals(rows) ==
    IF rows = <<>> THEN [spend |-> 0, refund |-> 0, payment |-> 0, net_spend |-> 0]
    ELSE LET tx == Head(rows)
             rest == Totals(Tail(rows))
             spend == rest.spend + (IF ~tx.is_credit THEN tx.amount ELSE 0)
             payment == rest.payment
                        + (IF tx.is_credit /\ tx.kind = "payment" THEN tx.amount ELSE 0)
             refund == rest.refund
                       + (IF tx.is_credit /\ tx.kind # "payment" THEN tx.amount ELSE 0)
         IN [spend |-> spend, refund |-> refund, payment |-> payment,
             net_spend |-> spend - refund]

\* get_statement_summary: the response, or the HTTPException
get_statement_summary(db, user, statement_id) ==
    IF statement_id \notin 1..Len(db.statements)
    THEN Raise(HTTPException(404, "statement not found"))
    ELSE LET st == db.statements[statement_id]
             rows == apply_transaction_read_scope(
                         SelectSeq(db.transactions,
                                   LAMBDA tx : tx.statement_id = statement_id), user)
             of_account(a) == SelectSeq(rows, LAMBDA tx : tx.account_number = a)
             of_card(a, c) == SelectSeq(of_account(a), LAMBDA tx : tx.card_number = c)
             account_numbers == SortedSeq({ rows[i].account_number : i \in 1..Len(rows) })
             card_numbers(a) ==
                 SortedSeq({ of_account(a)[i].card_number : i \in 1..Len(of_account(a)) })
             card_entry(a, c) ==
                 [card_number |-> c,
                  cardholder_name |-> of_card(a, c)[1].cardholder_name,
                  account_currency |-> of_card(a, c)[1].account_currency]
                 @@ Totals(of_card(a, c))
             account_entry(a) ==
                 [account_number |-> a,
                  account_currency |-> of_account(a)[1].account_currency,
                  cards |-> [i \in 1..Len(card_numbers(a)) |->
                                card_entry(a, card_numbers(a)[i])]]
                 @@ Totals(of_account(a))
             accounts == [i \in 1..Len(account_numbers) |->
                             account_entry(account_numbers[i])]
             RECURSIVE Flat(_)
             Flat(entries) ==
                 IF entries = <<>> THEN <<>>
                 ELSE [i \in 1..Len(Head(entries).cards) |->
                          [account_number |-> Head(entries).account_number]
                          @@ Head(entries).cards[i]]
                      \o Flat(Tail(entries))
             show_stmt_meta == can_see_statement_in_list(user, st)
         IN Ok([statement_id |-> st.id,
                statement_date |-> IF show_stmt_meta THEN Some(st.statement_date) ELSE None,
                statement_product |->
                    IF show_stmt_meta THEN Some(st.statement_product) ELSE None,
                accounts |-> accounts,
                cards |-> Flat(accounts)])

(***************************************************************************)
(* SpecWeb: the handlers of web/app.py on a store that starts empty.  An   *)
(* upload adds one of the parsed statements of WebFiles; list_transactions *)
(* and get_statement_summary are called by every user of WebUsers with the *)
(* queries of WebQueries.  fn_arg holds the store the handler was given    *)
(* (after the call) with the user and the request, fn_ret its response.    *)
(***************************************************************************)
WebTx(day, description, amount, is_credit, card_number, cardholder_name) ==
    NewTransaction([y |-> 2024, m |-> 1, d |-> day], [y |-> 2024, m |-> 1, d |-> day],
                   [i \in 1..Len(description) |-> W(description[i])],
                   amount, IF is_credit THEN -amount ELSE amount, is_credit,
                   transaction_kind(is_credit,
                                    [i \in 1..Len(description) |-> W(description[i])]),
                   card_number, cardholder_name, None, Some("HKD"), Some(amount),
                   <<1, day>>)

\* the record parse_statement returns for a statement of the given accounts
WebParsed(product, day, accounts) ==
    [statement_product |-> product,
     statement_date |-> [y |-> 2024, m |-> 1, d |-> day],
     sub_accounts |-> [i \in 1..Len(accounts) |-> sub_account_to_json(accounts[i]).v]]

WebAccount(account_number, cards, transactions) ==
    [NewSubAccount(account_number, Some("HKD"), Some("HKD"), None)
     EXCEPT !.cards = cards, !.previous_balance = Some(0),
            !.transactions = transactions]

\* PULSE: account 1 with the cards 11 and 12
WebPulse ==
    WebParsed("PULSE", 15,
        << WebAccount(1, (11 :> <<"JOHN", "SMITH">>) @@ (12 :> <<"ANN">>),
               << WebTx(2, <<"AMAZON", "HK">>, 100, FALSE, 11, <<"JOHN", "SMITH">>),
                  WebTx(5, <<"TAXI">>, 200, FALSE, 12, <<"ANN">>),
                  WebTx(10, <<"PAID", "BY", "AUTOPAY">>, 50, TRUE, 11,
                        <<"JOHN", "SMITH">>) >>) >>)

\* VISA SIGNATURE: account 2 with the card 21, account 3 with the card 31
WebVisa ==
    WebParsed("VISA SIGNATURE", 15,
        << WebAccount(2, (21 :> <<"BOB">>),
               << WebTx(3, <<"Amazon">>, 300, FALSE, 21, <<"BOB">>),
                  WebTx(7, <<"TAXI">>, 30, TRUE, 21, <<"BOB">>) >>),
           WebAccount(3, (31 :> <<"LEE">>),
               << WebTx(4, <<"HOTEL">>, 500, FALSE, 31, <<"LEE">>) >>) >>)

\* PULSE of another date: account 1 again, with the card 12 only
WebPulseLater ==
    WebParsed("PULSE", 16,
        << WebAccount(1, (12 :> <<"ANN">>),
               << WebTx(12, <<"AMAZON">>, 400, FALSE, 12, <<"ANN">>) >>) >>)

WebFiles ==
    { [is_pdf |-> TRUE, parsed |-> Ok(parsed)] :
        parsed \in {WebPulse, WebVisa, WebPulseLater} }
    \cup { [is_pdf |-> FALSE, parsed |-> Ok(WebPulse)],
           [is_pdf |-> TRUE, parsed |-> Raise(ParseError("PDF has no pages", 0, 0))] }

Admin == User("admin", "admin", Scope({}, {}, {}))

WebUsers ==
    { Admin,
      User("nobody", "user", Scope({}, {}, {})),
      User("pulse", "user", Scope({"PULSE"}, {}, {})),
      User("account2", "user", Scope({}, {2}, {})),
      User("card12", "user", Scope({}, {}, {12})),
      User("mixed", "user", Scope({"NONE"}, {3}, {11})) }

NoFilter ==
    [statement_id |-> None, statement_product |-> None, account_number |-> None,
     card_number |-> None, cardholder_name |-> None, tx_date_from |-> None,
     tx_date_to |-> None, q |-> None, limit |-> 500, offset |-> 0]

WebFilters ==
    { NoFilter,
      [NoFilter EXCEPT !.statement_id = Some(1)],
      [NoFilter EXCEPT !.statement_id = Some(2)],
      [NoFilter EXCEPT !.statement_product = Some("PULSE")],
      [NoFilter EXCEPT !.statement_product = Some("")],
      [NoFilter EXCEPT !.account_number = Some(1)],
      [NoFilter EXCEPT !.card_number = Some(12)],
      [NoFilter EXCEPT !.cardholder_name = Some("john")],
      [NoFilter EXCEPT !.q = Some("amazon")],
      [NoFilter EXCEPT !.tx_date_from = Some(IsoText([y |-> 2024, m |-> 1, d |-> 5]))],
      [NoFilter EXCEPT !.tx_date_to = Some(IsoText([y |-> 2024, m |-> 1, d |-> 5]))],
      [NoFilter EXCEPT !.tx_date_from = Some(IsoText([y |-> 2024, m |-> 1, d |-> 3])),
                       !.tx_date_to = Some(IsoText([y |-> 2024, m |-> 1, d |-> 7])),
                       !.card_number = Some(21)],
      [NoFilter EXCEPT !.tx_date_from = Some(IsoText([y |-> 2024, m |-> 1, d |-> 7])),
                       !.tx_date_to = Some(IsoText([y |-> 2024, m |-> 1, d |-> 3]))],
      [NoFilter EXCEPT !.tx_date_from = Some(NotADate)] }

WebQueries ==
    { [f EXCEPT !.limit = page[1], !.offset = page[2]] :
        f \in WebFilters, page \in {<<500, 0>>, <<1, 0>>, <<1, 1>>, <<2, 1>>} }

MaxUploads == 2

EmptyStore == [statements |-> <<>>, transactions |-> <<>>]

WebInit ==
    /\ pc = "serve"
    /\ fn_arg = [db |-> EmptyStore, user |-> Admin, request |-> None]
    /\ fn_ret = None
    /\ PipelineIdle

\* POST /api/statements/upload
UploadStatement ==
    /\ pc = "serve"
    /\ Len(fn_arg.db.statements) < MaxUploads
    /\ \E user \in WebUsers, file \in WebFiles :
         LET r == upload_statement(fn_arg.db, user, file)
         IN /\ fn_arg' = [db |-> r.db, user |-> user,
                          request |-> Some([handler |-> "upload_statement",
                                            file |-> file])]
            /\ fn_ret' = Some(r.response)
    /\ UNCHANGED pc
    /\ PipelineUnchanged

\* GET /api/transactions
ListTransactions ==
    /\ pc = "serve"
    /\ \E user \in WebUsers, query \in WebQueries :
         /\ fn_arg' = [db |-> fn_arg.db, user |-> user,
                       request |-> Some([handler |-> "list_transactions",
                                         query |-> query])]
         /\ fn_ret' = Some(list_transactions(fn_arg.db, user, query))
    /\ UNCHANGED pc
    /\ PipelineUnchanged

\* GET /api/statement_summary
GetStatementSummary ==
    /\ pc = "serve"
    /\ \E user \in WebUsers, statement_id \in 1..(MaxUploads + 1) :
         /\ fn_arg' = [db |-> fn_arg.db, user |-> user,
                       request |-> Some([handler |-> "get_statement_summary",
                                         statement_id |-> statement_id])]
         /\ fn_ret' = Some(get_statement_summary(fn_arg.db, user, statement_id))
    /\ UNCHANGED pc
    /\ PipelineUnchanged

WebNext == UploadStatement \/ ListTransactions \/ GetStatementSummary

SpecWeb == WebInit /\ [][WebNext]_vars

\* the call the state records was made by a user who is not an admin
ScopedCall(handler) ==
    /\ fn_arg.request # None
    /\ Val(fn_arg.request).handler = handler
    /\ fn_arg.user.role # "admin"

\* the transaction is in the user's read scope
InReadScope(user, tx) ==
    has_scope_match(user.read_scope, tx.statement_product, tx.account_number,
                    tx.card_number)

\* the store without the transactions outside the user's read scope
ScopedStore(db, user) ==
    [db EXCEPT !.transactions = SelectSeq(@, LAMBDA tx : InReadScope(user, tx))]

NoReadScope(user) ==
    /\ user.read_scope.statement_products = {}
    /\ user.read_scope.account_numbers = {}
    /\ user.read_scope.card_numbers = {}

RECURSIVE SumOf(_, _)
SumOf(entries, field) ==
    IF entries = <<>> THEN 0 ELSE Head(entries)[field] + SumOf(Tail(entries), field)

\* C30: for a user who is not an admin, every item list_transactions returns
\* is a transaction of the store in the user's read scope, whatever the
\* filters and the pagination, and none is returned to a user without read
\* scope; the listing is the one the store gives without the transactions
\* outside the scope, so two stores that differ only there give the same
\* listing; the totals of get_statement_summary are those of the
\* statement's transactions in the scope.
C30_ScopedReads ==
    /\ (ScopedCall("list_transactions") /\ Val(fn_ret).ok) =>
          LET user == fn_arg.user
              items == Val(fn_ret).v.items
              rows == fn_arg.db.transactions
          IN /\ \A i \in 1..Len(items) :
                   /\ InReadScope(user, items[i])
                   /\ \E k \in 1..Len(rows) :
                         rows[k].id = items[i].id /\ transaction_item(rows[k]) = items[i]
             /\ \A i, j \in 1..Len(items) : i # j => items[i].id # items[j].id
             /\ NoReadScope(user) => items = <<>>
             /\ Val(fn_ret) = list_transactions(ScopedStore(fn_arg.db, user), user,
                                                Val(fn_arg.request).query)
    /\ (ScopedCall("get_statement_summary") /\ Val(fn_ret).ok) =>
          LET user == fn_arg.user
              id == Val(fn_arg.request).statement_id
              in_scope == SelectSeq(fn_arg.db.transactions, LAMBDA tx :
                              tx.statement_id = id /\ InReadScope(user, tx))
              totals(entries) ==
                  SumOf(entries, "spend") + SumOf(entries, "refund")
                      + SumOf(entries, "payment")
          IN /\ totals(Val(fn_ret).v.accounts) = SumAmounts(in_scope, TRUE)
                                                    + SumAmounts(in_scope, FALSE)
             /\ totals(Val(fn_ret).v.cards) = totals(Val(fn_ret).v.accounts)
             /\ { e.account_number : e \in { Val(fn_ret).v.cards[i] :
                                             i \in 1..Len(Val(fn_ret).v.cards) } }
                   = { in_scope[i].account_number : i \in 1..Len(in_scope) }
             /\ NoReadScope(user) => Val(fn_ret).v.accounts = <<>>

\* the user whose scope is the card 12 lists the second page of one item of
\* a store of two statements: the card's transaction of the older statement
C30_Witness ==
    /\ ScopedCall("list_transactions")
    /\ fn_arg.user.read_scope = Scope({}, {}, {12})
    /\ Len(fn_arg.db.statements) = 2
    /\ Len(fn_arg.db.transactions) >= 4
    /\ Val(fn_arg.request).query.offset = 1
    /\ Val(fn_ret).ok
    /\ Len(Val(fn_ret).v.items) = 1
    /\ Val(fn_ret).v.items[1].card_number = 12

====
